---- MODULE Spec2Model ----
(***************************************************************************)
(* Chunked artifact fan-out engine of content-extractor-pro.               *)
(*                                                                         *)
(* Texts are sequences of characters; a character is a one-token string.  *)
(* Python's 0-based indices are kept: the character at Python index i of  *)
(* a text t is t[i + 1].                                                   *)
(***************************************************************************)
EXTENDS Integers, Sequences, FiniteSets, TLC

\* ------------------------------------------------------------------ bounds
MaxLen == 6        \* longest text handed to the splitter
MaxLimit == 5      \* largest max_chars handed to the splitter
MaxData == 2       \* longest byte string handed to write_if_changed
MaxClock == 4      \* write_if_changed calls and deletions observed
MaxGenLimit == 2   \* largest chunk_char_limit of a generation pass
MaxPasses == 4     \* generation passes into a directory shared by documents
MaxFanLimit == 2   \* largest chunk_char_limit of a fan-out cycle
MaxCalls == 2      \* fan_out_artifacts calls in a cycle
MaxDamage == 1     \* chunk or aggregate files lost or spoiled between calls
MaxBaseLen == 5    \* tokens of a base name
MaxTotal == 10     \* largest total_parts of a chunk file name
MaxPayload == 3    \* code points, nodes, items or pages of a payload to split
MaxSplitLimit == 4 \* largest limit given to a splitter
MaxJsonBytes == 8  \* largest byte ceiling given to split_json
MaxHtmlLen == 4    \* tokens of an aggregate HTML given to the text generator
MaxDomainRuns == 2    \* runs of write_domain_aggregates over one domain
MaxLineLen == 6       \* characters of a text with lines given to a size-based splitter
MaxSplitRuns == 2     \* calls of a splitter on the same path
MaxConfigLimit == 3   \* largest chunk_char_limit or split_parts a configuration holds
MaxAttempts == 3      \* most attempts a fetch_and_render call is given
MaxConvertPasses == 3 \* conversion passes over one document
MaxUrlRuns == 2       \* runs of process_urls over one domain
MaxUrlLimit == 4      \* largest chunk_char_limit of a process_urls run
MaxPdfRuns == 2       \* runs of process_pdf_dataset over one dataset
MaxPdfLimit == 4      \* largest chunk_char_limit of a process_pdf_dataset run

\* Aggregate payloads of the generation passes: empty, a body that rstrip
\* shortens, a line break inside, and more chunks than MaxGenLimit.
GenTexts == {<< >>, <<"a", "\n">>, <<"a", "\n", "a">>, <<"a", "a", "a", "a", "a">>}

NL == "\n"
Chars == {"a", NL}

RECURSIVE SeqsUpTo(_, _)
SeqsUpTo(S, n) ==
    IF n = 0 THEN {<< >>}
    ELSE LET shorter == SeqsUpTo(S, n - 1)
         IN  shorter \cup {Append(s, c) : s \in {t \in shorter : Len(t) = n - 1}, c \in S}

Min(a, b) == IF a < b THEN a ELSE b
Max(a, b) == IF a > b THEN a ELSE b

\* ------------------------------------------------------- python primitives
\* text[lo:hi] for 0 <= lo; hi is clamped to len(text) as Python slicing does.
Slice(t, lo, hi) ==
    IF Min(hi, Len(t)) <= lo THEN << >> ELSE SubSeq(t, lo + 1, Min(hi, Len(t)))

\* str.rfind(ch, start, end): highest index i in [start, end) with t[i] = ch,
\* or -1 when there is none.
rfind(t, ch, start, end) ==
    LET hits == {i \in start .. (Min(end, Len(t)) - 1) : t[i + 1] = ch}
    IN  IF hits = {} THEN -1 ELSE CHOOSE i \in hits : \A j \in hits : j <= i

RECURSIVE Concat(_)
Concat(ss) == IF ss = << >> THEN << >> ELSE Head(ss) \o Concat(Tail(ss))

\* ------------------------------------------------- artifacts/chunking.py
\* Lines 30-34: the exclusive end of the window that starts at cursor.
\* newline_break > cursor + max_chars * 0.5 is compared in doubled integers.
WindowLimitDoubled(t, c, m) == Min(Len(t), c + 2 * m)

\* A window that ends at its last newline wherever that newline lies.
WindowLimitAtAnyNewline(t, c, m) ==
    LET limit == Min(Len(t), c + m)
        newline_break == rfind(t, NL, c, limit)
    IN  IF limit < Len(t) /\ newline_break >= c THEN newline_break + 1 ELSE limit

WindowLimit(t, c, m) ==
    LET limit == Min(Len(t), c + m)
        newline_break == rfind(t, NL, c, limit)
    IN  IF limit < Len(t) /\ 2 * newline_break > 2 * c + m
        THEN newline_break + 1
        ELSE limit

\* Lines 35-37: the segment appended for the window [cursor, limit).
SegmentDropsLast(t, c, limit, m) == Slice(t, c, limit - 1)

Segment(t, c, limit, m) ==
    LET segment == Slice(t, c, limit)
    IN  IF segment = << >> THEN Slice(t, c, c + m) ELSE segment

\* The whole function, lines 20-40, for max_chars >= 1.
RECURSIVE SplitFrom(_, _, _)
SplitFrom(t, c, m) ==
    IF c >= Len(t) THEN << >>
    ELSE LET limit == WindowLimit(t, c, m)
         IN  <<Segment(t, c, limit, m)>> \o SplitFrom(t, limit, m)

split_text_on_newlines(t, m) ==
    IF t = << >> THEN << << >> >> ELSE SplitFrom(t, 0, m)

\* ------------------------------------------- pipelines/common/checksum.py
\* A file at a path: missing, or its bytes with the time of its last write.
Bytes == {"x", "y"}
NoFile == [exists |-> FALSE, data |-> << >>, mtime |-> 0]
FileOf(data, now) == [exists |-> TRUE, data |-> data, mtime |-> now]

\* SHA-256 is taken as collision free: a digest determines its input.
None == <<"None", << >> >>
sha256_bytes(data) == <<"sha256", data>>
sha256_file(f) == IF ~f.exists THEN None ELSE sha256_bytes(f.data)

\* write_if_changed(path, data) at time now on the file f found at path:
\* the file left at path and the value returned.
write_always(f, data, now) == [file |-> FileOf(data, now), ret |-> TRUE]

write_if_changed(f, data, now) ==
    LET expected == sha256_bytes(data)
        current == sha256_file(f)
    IN  IF current = expected
        THEN [file |-> f, ret |-> FALSE]
        ELSE [file |-> FileOf(data, now), ret |-> TRUE]

\* ------------------------------------------------------------ file names
\* A file name is a sequence of tokens: the tokens of the base name, then
\* "_part_", the digits of an index, "_of_", the digits of a total and the
\* extension for a chunk, or the extension alone for an aggregate.
Digits == <<"1", "2", "3", "4", "5", "6", "7", "8", "9">>
DigitToks == {"0"} \cup {Digits[i] : i \in 1 .. 9}
Extensions == {".html", ".md", ".text", ".txt", ".json", ".pdf"}
\* The tokens that begin with a dot.
DotToks == Extensions \cup {"."}

\* str(i): the decimal digits of i, most significant first.
RECURSIVE Str(_)
Str(i) ==
    IF i < 10 THEN <<IF i = 0 THEN "0" ELSE Digits[i]>>
    ELSE Str(i \div 10) \o Str(i % 10)

\* int(s) of a run of decimal digits.
RECURSIVE ToInt(_)
ToInt(s) ==
    IF s = << >> THEN 0
    ELSE 10 * ToInt(SubSeq(s, 1, Len(s) - 1))
            + (CHOOSE d \in 0 .. 9 : Str(d) = <<s[Len(s)]>>)

AggregateName(base_name, extension) == base_name \o <<extension>>

\* artifacts/chunking.py line 70: f"{base_name}_part_{index}_of_{total}{extension}"
ChunkName(base_name, index, total, extension) ==
    base_name \o <<"_part_">> \o Str(index) \o <<"_of_">> \o Str(total) \o <<extension>>

\* \d+ at position k of the name: the length of the run of digits there.
RECURSIVE DigitRun(_, _)
DigitRun(name, k) ==
    IF k <= Len(name) /\ name[k] \in DigitToks THEN 1 + DigitRun(name, k + 1) ELSE 0

\* artifact_fanout.py line 17: whether _part_(\d+)_of_(\d+)\. matches the
\* name at position k, the runs of digits being index_run and total_run long.
MatchesAt(name, k, index_run, total_run) ==
    /\ name[k] = "_part_"
    /\ index_run >= 1
    /\ k + 1 + index_run <= Len(name)
    /\ name[k + 1 + index_run] = "_of_"
    /\ total_run >= 1
    /\ k + 2 + index_run + total_run <= Len(name)
    /\ name[k + 2 + index_run + total_run] \in DotToks

\* lines 32-34: int(match.group(1)), int(match.group(2))
GroupsAt(name, k, index_run, total_run) ==
    <<ToInt(SubSeq(name, k + 1, k + index_run)),
      ToInt(SubSeq(name, k + 2 + index_run, k + 1 + index_run + total_run))>>

\* lines 29-34: the leftmost match from position k on, or (0, 0).
RECURSIVE ParseFrom(_, _)
ParseFrom(name, k) ==
    IF k > Len(name) THEN <<0, 0>>
    ELSE IF MatchesAt(name, k, DigitRun(name, k + 1),
                      DigitRun(name, k + 2 + DigitRun(name, k + 1)))
         THEN GroupsAt(name, k, DigitRun(name, k + 1),
                       DigitRun(name, k + 2 + DigitRun(name, k + 1)))
         ELSE ParseFrom(name, k + 1)

parse_chunk_indices(name) == ParseFrom(name, 1)

\* fnmatch of a glob pattern against a name; "*" matches any run of tokens.
RECURSIVE GlobMatch(_, _)
GlobMatch(pattern, name) ==
    IF pattern = << >> THEN name = << >>
    ELSE IF Head(pattern) = "*"
         THEN \E k \in 0 .. Len(name) :
                 GlobMatch(Tail(pattern), SubSeq(name, k + 1, Len(name)))
         ELSE /\ name # << >>
              /\ Head(name) = Head(pattern)
              /\ GlobMatch(Tail(pattern), Tail(name))

\* ----------------------------------------------------------- file system
\* fs.dirs: the directories that exist; fs.files: the files that exist, by
\* path <<directory, name>>; fs.log: what the running operation has done to
\* the file system so far, as <<operation, path>> pairs.
\* A file is [st, data]: st is "ok", "oserror" (reading it raises OSError) or
\* "undecodable" (its bytes are not UTF-8, reading it raises UnicodeDecodeError).
EmptyFS == [dirs |-> {}, files |-> << >>, log |-> {}]
OkFile(data) == [st |-> "ok", data |-> data]

Exists(fs, path) == path \in DOMAIN fs.files

\* Path.mkdir(parents=True, exist_ok=True)
Mkdir(fs, d) ==
    IF d \in fs.dirs THEN fs
    ELSE [fs EXCEPT !.dirs = @ \cup {d}, !.log = @ \cup {<<"mkdir", <<d, << >> >> >>}]

\* Path.unlink()
Unlink(fs, path) ==
    [fs EXCEPT !.files = [q \in (DOMAIN fs.files) \ {path} |-> fs.files[q]],
               !.log = @ \cup {<<"unlink", path>>}]

\* Path.write_text(payload): the file is created or truncated and rewritten.
WriteText(fs, path, data) ==
    [fs EXCEPT !.files = [q \in (DOMAIN fs.files) \cup {path} |->
                             IF q = path THEN OkFile(data) ELSE fs.files[q]],
               !.log = @ \cup {<<"write", path>>}]

\* Path.glob(pattern) in directory d: the names that match.
Glob(fs, d, pattern) ==
    {p[2] : p \in {q \in DOMAIN fs.files : q[1] = d /\ GlobMatch(pattern, q[2])}}

\* artifacts/chunking.py lines 11-17
RECURSIVE UnlinkAll(_, _, _)
UnlinkAll(fs, d, names) ==
    IF names = {} THEN fs
    ELSE LET n == CHOOSE x \in names : TRUE
         IN  UnlinkAll(Unlink(fs, <<d, n>>), d, names \ {n})

clear_nothing(fs, d, patterns) == fs

clear_existing_files(fs, d, patterns) ==
    UnlinkAll(fs, d, UNION {Glob(fs, d, patterns[k]) : k \in 1 .. Len(patterns)})

\* artifacts/cleanup.py lines 11-15
prepare_output_dir(fs, d, patterns_to_clear) ==
    clear_existing_files(Mkdir(fs, d), d, patterns_to_clear)

\* artifacts/chunking.py lines 57-76: the file system after the writes.
RECURSIVE WriteChunksFrom(_, _, _, _, _, _)
WriteChunksFrom(fs, dest_dir, base_name, extension, payloads, index) ==
    IF index > Len(payloads) THEN fs
    ELSE WriteChunksFrom(
             WriteText(fs,
                       <<dest_dir, ChunkName(base_name, index, Len(payloads), extension)>>,
                       payloads[index]),
             dest_dir, base_name, extension, payloads, index + 1)

write_chunks(fs, dest_dir, base_name, extension, payloads) ==
    WriteChunksFrom(fs, dest_dir, base_name, extension, payloads, 1)

\* ------------------------------------------------------ artifact payloads
\* The payload of a chunk file: the optional source-URL comment line, the
\* banner line "<fmt> Chunk index/total . label" and the stripped body.
\* source_url "" stands for None and for the empty string (both are falsy).
Whitespace == {NL, " "}

RECURSIVE rstrip(_)
rstrip(t) ==
    IF t # << >> /\ t[Len(t)] \in Whitespace THEN rstrip(SubSeq(t, 1, Len(t) - 1)) ELSE t

RECURSIVE lstrip(_)
lstrip(t) == IF t # << >> /\ Head(t) \in Whitespace THEN lstrip(Tail(t)) ELSE t

strip(t) == lstrip(rstrip(t))

ChunkPayload(source_url, fmt, index, total, label, body) ==
    [src |-> source_url, fmt |-> fmt, index |-> index, total |-> total,
     label |-> label, body |-> body]

\* The empty string, where a chunk payload is expected.
EmptyPayload == ChunkPayload("", "", 0, 0, "", << >>)

\* artifacts/formats/html.py lines 40-48, artifact_fanout.py lines 141-149
HtmlChunkPayload(source_url, index, total, label, html_part) ==
    ChunkPayload(source_url, "HTML", index, total, label, rstrip(html_part))

\* artifacts/formats/markdown.py lines 48-56, artifact_fanout.py lines 158-166
MarkdownChunkPayload(source_url, index, total, label, markdown_part) ==
    ChunkPayload(source_url, "Markdown", index, total, label, strip(markdown_part))

\* artifact_fanout.py lines 37-40: BeautifulSoup(html, "lxml").get_text("\n").
\* Markup ("<p>" stands for any tag) is dropped and the text nodes it
\* separated are joined by newlines.
Tag == "<p>"

\* The source URLs the callers pass: process_urls.py line 634 (the URL),
\* line 547 (the domain), process_pending_inputs.py line 205 (the PDF).
SourceUrls ==
    {"https://example.com/a", "https://example.com/b", "domain://example.com",
     "pdf://a.pdf", "pdf://b.pdf"}

\* f"<!-- Source URL: {source_url} -->", one token of a payload
SourceComment(source_url) == "<!-- Source URL: " \o source_url \o " -->"
IsSourceComment(token) == \E u \in SourceUrls : token = SourceComment(u)

HtmlOpen == "<html>"
HtmlClose == "</html>"

\* What get_text takes for no text: tags and comments.
Markup == {Tag, HtmlOpen, HtmlClose} \cup {SourceComment(u) : u \in SourceUrls}

RECURSIVE TextNodes(_, _)
TextNodes(html, node) ==
    IF html = << >> THEN (IF node = << >> THEN << >> ELSE <<node>>)
    ELSE IF Head(html) \in Markup
         THEN (IF node = << >> THEN << >> ELSE <<node>>) \o TextNodes(Tail(html), << >>)
         ELSE TextNodes(Tail(html), Append(node, Head(html)))

RECURSIVE Join(_, _)
Join(sep, parts) ==
    IF parts = << >> THEN << >>
    ELSE IF Len(parts) = 1 THEN parts[1]
         ELSE parts[1] \o sep \o Join(sep, Tail(parts))

extract_plain_text(html_payload) == Join(<<NL>>, TextNodes(html_payload, << >>))

\* ------------------------------------------- artifacts/formats/html.py
HtmlPatterns(base_name) ==
    << AggregateName(base_name, ".html"),
       base_name \o <<"_part_", "*", ".html">>,
       <<"aggregate", ".html">>,
       <<"html", "_part_", "*", ".html">> >>

html_generate(fs, aggregate_payload, dest_dir, base_name, label, chunk_char_limit, source_url) ==
    LET fs1 == prepare_output_dir(fs, dest_dir, HtmlPatterns(base_name))
        fs2 == WriteText(fs1, <<dest_dir, AggregateName(base_name, ".html")>>,
                         aggregate_payload)
        html_chunks == split_text_on_newlines(aggregate_payload, chunk_char_limit)
        chunk_payloads ==
            [index \in 1 .. Len(html_chunks) |->
                HtmlChunkPayload(source_url, index, Len(html_chunks), label,
                                 html_chunks[index])]
    IN  write_chunks(fs2, dest_dir, base_name, ".html", chunk_payloads)

\* --------------------------------------- artifacts/formats/markdown.py
MarkdownPatterns(base_name) ==
    << AggregateName(base_name, ".md"),
       base_name \o <<"_part_", "*", ".md">>,
       <<"aggregate", ".md">>,
       <<"markdown", "_part_", "*", ".md">> >>

\* artifacts/chunking.py lines 43-54
pair_segments(html_segments, markdown_segments) ==
    [idx \in 1 .. Max(Len(html_segments), Len(markdown_segments)) |->
        [html_part |-> IF idx <= Len(html_segments) THEN html_segments[idx] ELSE << >>,
         md_part |-> IF idx <= Len(markdown_segments) THEN markdown_segments[idx]
                     ELSE << >>]]

\* f"combined_part_{chunk_number:02d}.md"
CombinedName(chunk_number) ==
    <<"combined", "_part_">>
        \o (IF chunk_number < 10 THEN <<"0">> ELSE << >>) \o Str(chunk_number)
        \o <<".md">>

\* lines 119-141: the payload of one combined file.
CombinedPayload(source_url, chunk_number, total_chunks, total_html, total_md, label, html_part, markdown_part) ==
    [src |-> source_url, fmt |-> "Combined", index |-> chunk_number,
     total |-> total_chunks, label |-> label,
     html_total |-> total_html, md_total |-> total_md,
     html |-> IF strip(html_part) # << >> THEN rstrip(html_part) ELSE << >>,
     markdown |-> strip(markdown_part)]

RECURSIVE WriteCombinedFrom(_, _, _, _, _, _, _, _)
WriteCombinedFrom(fs, dest_dir, pairs, source_url, total_html, total_md, label, k) ==
    IF k > Len(pairs) THEN fs
    ELSE WriteCombinedFrom(
             WriteText(fs, <<dest_dir, CombinedName(k)>>,
                       CombinedPayload(source_url, k, Len(pairs), total_html, total_md,
                                       label, pairs[k].html_part, pairs[k].md_part)),
             dest_dir, pairs, source_url, total_html, total_md, label, k + 1)

\* lines 82-146
write_combined_artifacts(fs, dest_dir, aggregate_html_payload, aggregate_markdown_payload, source_url, chunk_char_limit, label) ==
    LET half_limit == Max(1, chunk_char_limit \div 2)
        fs1 == clear_existing_files(fs, dest_dir, << <<"combined", "_part_", "*", ".md">> >>)
        combined_html_segments == split_text_on_newlines(aggregate_html_payload, half_limit)
        combined_markdown_segments ==
            split_text_on_newlines(aggregate_markdown_payload, half_limit)
    IN  WriteCombinedFrom(fs1, dest_dir,
                          pair_segments(combined_html_segments, combined_markdown_segments),
                          source_url, Len(combined_html_segments),
                          Len(combined_markdown_segments), label, 1)

\* lines 18-79
markdown_generate(fs, aggregate_payload, dest_dir, base_name, label, chunk_char_limit, source_url, html_payload) ==
    LET fs1 == prepare_output_dir(fs, dest_dir, MarkdownPatterns(base_name))
        fs2 == WriteText(fs1, <<dest_dir, AggregateName(base_name, ".md")>>,
                         aggregate_payload)
        markdown_chunks == split_text_on_newlines(aggregate_payload, chunk_char_limit)
        chunk_payloads ==
            [index \in 1 .. Len(markdown_chunks) |->
                MarkdownChunkPayload(source_url, index, Len(markdown_chunks), label,
                                     markdown_chunks[index])]
        fs3 == write_chunks(fs2, dest_dir, base_name, ".md", chunk_payloads)
    IN  write_combined_artifacts(fs3, dest_dir, html_payload, aggregate_payload,
                                 source_url, chunk_char_limit, label)

\* ------------------------------------------------------ artifact_fanout.py
\* lines 54-91.  The rename loop of lines 84-91 never renames: write_chunks
\* returns the paths under the very names the loop expects.
generate_text_artifacts_of_markup(f, aggregate_html, text_dir, chunk_char_limit, base_name) ==
    LET fs1 == prepare_output_dir(f, text_dir,
                   << AggregateName(base_name, ".text"),
                      base_name \o <<"_part_", "*", ".txt">> >>)
        fs2 == WriteText(fs1, <<text_dir, AggregateName(base_name, ".text")>>,
                         extract_plain_text(aggregate_html))
    IN  write_chunks(fs2, text_dir, base_name, ".txt",
                     split_text_on_newlines(aggregate_html, chunk_char_limit))

generate_text_artifacts(f, aggregate_html, text_dir, chunk_char_limit, base_name) ==
    LET fs1 == prepare_output_dir(f, text_dir,
                   << AggregateName(base_name, ".text"),
                      base_name \o <<"_part_", "*", ".txt">> >>)
        plain_text == extract_plain_text(aggregate_html)
        fs2 == WriteText(fs1, <<text_dir, AggregateName(base_name, ".text")>>, plain_text)
    IN  write_chunks(fs2, text_dir, base_name, ".txt",
                     split_text_on_newlines(plain_text, chunk_char_limit))

\* lines 123-135: the path kept for a part index.  The sorted glob is walked
\* in order and a later path replaces an earlier one of the same index; names
\* of one index differ in their total alone, so the last is the largest total.
\* << >> stands for "no path".
ChunkPathFor(f, d, base_name, extension, index) ==
    LET found == {n \in Glob(f, d, base_name \o <<"_part_", "*", "_of_", "*", extension>>) :
                     parse_chunk_indices(n)[1] = index}
    IN  IF index = 0 \/ found = {} THEN << >>
        ELSE CHOOSE n \in found :
                 \A m \in found : parse_chunk_indices(m)[2] <= parse_chunk_indices(n)[2]

\* lines 174-182: "text" with the content, "none" after an OSError, "raise"
\* when the bytes do not decode (UnicodeDecodeError is no OSError).
read_text(f, path) ==
    IF f.files[path].st = "ok" THEN [got |-> "text", data |-> f.files[path].data]
    ELSE IF f.files[path].st = "oserror" THEN [got |-> "none", data |-> EmptyPayload]
         ELSE [got |-> "raise", data |-> EmptyPayload]

\* lines 137-139 and 171: total_parts comes from the split of the aggregate
\* HTML in memory, never from the chunk files found on disk.
total_parts_from_disk(f, html_dir, base_name, aggregate_html, chunk_char_limit) ==
    LET on_disk == Glob(f, html_dir, base_name \o <<"_part_", "*", "_of_", "*", ".html">>)
    IN  IF on_disk = {} THEN 1 ELSE Cardinality(on_disk)

fallback_html_total(f, html_dir, base_name, aggregate_html, chunk_char_limit) ==
    LET raw_chunks == split_text_on_newlines(aggregate_html, chunk_char_limit)
    IN  IF Len(raw_chunks) = 0 THEN 1 ELSE Len(raw_chunks)

\* lines 140-150
fallback_html_chunks(aggregate_html, chunk_char_limit, source_url, dataset_name, total) ==
    LET raw_chunks == split_text_on_newlines(aggregate_html, chunk_char_limit)
    IN  [index \in 1 .. Len(raw_chunks) |->
            HtmlChunkPayload(source_url, index, total, dataset_name, raw_chunks[index])]

\* lines 152-169
fallback_markdown_chunks(aggregate_markdown, chunk_char_limit, source_url, dataset_name, total_parts) ==
    LET raw_chunks == split_text_on_newlines(aggregate_markdown, chunk_char_limit)
    IN  [index \in 1 .. Max(Len(raw_chunks), total_parts) |->
            IF index <= Len(raw_chunks)
            THEN MarkdownChunkPayload(source_url, index, Len(raw_chunks), dataset_name,
                                      raw_chunks[index])
            ELSE EmptyPayload]

\* dict.get(index, "")
GetOrEmpty(d, index) == IF index \in DOMAIN d THEN d[index] ELSE EmptyPayload

\* lines 186-218: what one iteration of the loop reads and builds.
JsonPart(f, dataset_name, html_dir, markdown_dir, base_name, part_index, total_parts, regenerated_html, regenerated_markdown) ==
    LET html_path == ChunkPathFor(f, html_dir, base_name, ".html", part_index)
        html_read == IF html_path # << >> THEN read_text(f, <<html_dir, html_path>>)
                     ELSE [got |-> "none", data |-> EmptyPayload]
        html_content == IF html_read.got = "text" THEN html_read.data
                        ELSE GetOrEmpty(regenerated_html, part_index)
        markdown_path == ChunkPathFor(f, markdown_dir, base_name, ".md", part_index)
        markdown_read == IF markdown_path # << >>
                         THEN read_text(f, <<markdown_dir, markdown_path>>)
                         ELSE [got |-> "none", data |-> EmptyPayload]
        markdown_content == IF markdown_read.got = "text" THEN markdown_read.data
                            ELSE GetOrEmpty(regenerated_markdown, part_index)
    IN  [raised |-> html_read.got = "raise" \/ markdown_read.got = "raise",
         entry |-> [dataset |-> dataset_name, part |-> part_index,
                    total_parts |-> total_parts, html |-> html_content,
                    markdown |-> markdown_content,
                    text |-> extract_plain_text(html_content.body)]]

\* lines 220-227
RECURSIVE WriteJsonChunks(_, _, _, _, _, _)
WriteJsonChunks(f, json_dir, base_name, entries, upto, k) ==
    IF k > upto THEN f
    ELSE WriteJsonChunks(
             WriteText(f, <<json_dir, ChunkName(base_name, k, Len(entries), ".json")>>,
                       entries[k]),
             json_dir, base_name, entries, upto, k + 1)

\* lines 94-245: the file system left behind, and whether the call raised.
\* The timestamp generated_at is left out of the aggregate record.
generate_json_artifacts(f, dataset_name, aggregate_html, aggregate_markdown, text_dir, html_dir, markdown_dir, json_dir, chunk_char_limit, source_url, base_name) ==
    LET fs1 == prepare_output_dir(f, json_dir,
                   << AggregateName(base_name, ".json"),
                      base_name \o <<"_part_", "*", ".json">> >>)
        aggregate_text_path == <<text_dir, AggregateName(base_name, ".text")>>
        aggregate_text == IF Exists(fs1, aggregate_text_path)
                          THEN fs1.files[aggregate_text_path].data
                          ELSE extract_plain_text(aggregate_html)
        total_parts == fallback_html_total(fs1, html_dir, base_name, aggregate_html,
                                           chunk_char_limit)
        regenerated_html == fallback_html_chunks(aggregate_html, chunk_char_limit,
                                                 source_url, dataset_name, total_parts)
        regenerated_markdown == fallback_markdown_chunks(aggregate_markdown,
                                    chunk_char_limit, source_url, dataset_name, total_parts)
        parts == [part_index \in 1 .. total_parts |->
                     JsonPart(fs1, dataset_name, html_dir, markdown_dir, base_name,
                              part_index, total_parts, regenerated_html,
                              regenerated_markdown)]
        chunk_entries == [part_index \in 1 .. total_parts |-> parts[part_index].entry]
        raising == {part_index \in 1 .. total_parts : parts[part_index].raised}
        first_raise == CHOOSE k \in raising : \A j \in raising : k <= j
    IN  IF raising # {}
        THEN [fs |-> WriteJsonChunks(fs1, json_dir, base_name, chunk_entries,
                                     first_raise - 1, 1),
              raised |-> TRUE]
        ELSE [fs |-> WriteText(
                         WriteJsonChunks(fs1, json_dir, base_name, chunk_entries,
                                         total_parts, 1),
                         <<json_dir, AggregateName(base_name, ".json")>>,
                         [dataset |-> dataset_name,
                          aggregate |-> [html |-> aggregate_html,
                                         markdown |-> aggregate_markdown,
                                         text |-> aggregate_text],
                          chunks |-> chunk_entries]),
              raised |-> FALSE]

\* html_to_pdf.py lines 20-40: the parent of the target is created, and the
\* PDF is written when the browser succeeds; it cannot when the page is missing.
render_pdf_from_html(f, input_html, output_pdf, browser_ok) ==
    LET fs1 == [Mkdir(f, output_pdf[1]) EXCEPT !.log = @ \cup {<<"render", input_html>>}]
    IN  IF browser_ok /\ Exists(f, input_html)
        THEN WriteText(fs1, output_pdf, [pdf_of |-> f.files[input_html]])
        ELSE fs1

\* lines 273-289
RECURSIVE RenderChunks(_, _, _, _, _, _)
RenderChunks(f, html_dir, pdf_dir, base_name, names, browser_ok) ==
    IF names = {} THEN f
    ELSE LET n == CHOOSE x \in names : TRUE
             indices == parse_chunk_indices(n)
         IN  RenderChunks(
                 render_pdf_from_html(f, <<html_dir, n>>,
                     <<pdf_dir, ChunkName(base_name, indices[1], indices[2], ".pdf")>>,
                     browser_ok[n]),
                 html_dir, pdf_dir, base_name, names \ {n}, browser_ok)

PdfPatterns(base_name) ==
    << AggregateName(base_name, ".pdf"), base_name \o <<"_part_", "*", ".pdf">> >>

\* The pages a PDF pass renders: the aggregate and the chunk files on disk.
PdfSources(f, html_dir, base_name) ==
    {AggregateName(base_name, ".html")}
        \cup Glob(f, html_dir, base_name \o <<"_part_", "*", "_of_", "*", ".html">>)

\* A pass that gives up on the chunks when the aggregate does not render.
generate_pdf_artifacts_until_failure(f, html_dir, pdf_dir, base_name, browser_ok) ==
    LET fs1 == prepare_output_dir(f, pdf_dir, PdfPatterns(base_name))
        fs2 == render_pdf_from_html(fs1, <<html_dir, AggregateName(base_name, ".html")>>,
                                    <<pdf_dir, AggregateName(base_name, ".pdf")>>,
                                    browser_ok[AggregateName(base_name, ".html")])
    IN  IF browser_ok[AggregateName(base_name, ".html")]
        THEN RenderChunks(fs2, html_dir, pdf_dir, base_name,
                 Glob(fs2, html_dir, base_name \o <<"_part_", "*", "_of_", "*", ".html">>),
                 browser_ok)
        ELSE fs2

\* lines 248-289; browser_ok tells, per page, whether the browser renders it.
generate_pdf_artifacts(f, html_dir, pdf_dir, base_name, browser_ok) ==
    LET fs1 == prepare_output_dir(f, pdf_dir, PdfPatterns(base_name))
        fs2 == render_pdf_from_html(fs1, <<html_dir, AggregateName(base_name, ".html")>>,
                                    <<pdf_dir, AggregateName(base_name, ".pdf")>>,
                                    browser_ok[AggregateName(base_name, ".html")])
    IN  RenderChunks(fs2, html_dir, pdf_dir, base_name,
                     Glob(fs2, html_dir, base_name \o <<"_part_", "*", "_of_", "*", ".html">>),
                     browser_ok)

\* ------------------------------------------ pipelines/common/splitters.py
\* A str is a sequence of code points; its UTF-8 encoding is a sequence of
\* bytes, written in hexadecimal.
Utf8Chars == {"U+0061", "U+00E9", "U+20AC"}
\* The characters of texts with lines: a letter and the newline.
LineChars == {"U+0061", "U+000A"}
\* The code points Latin-1 gives to the bytes of those encodings.
Latin1Chars == {"U+00C3", "U+00A9", "U+00E2", "U+0082", "U+00AC"}
ContinuationBytes == {"A9", "82", "AC", "83", "A2"}

\* str.encode("utf-8") of one code point.
EncodeChar(c) ==
    CASE c = "U+0061" -> <<"61">>
      [] c = "U+000A" -> <<"0A">>
      [] c = "U+00E9" -> <<"C3", "A9">>
      [] c = "U+20AC" -> <<"E2", "82", "AC">>
      [] c = "U+00C3" -> <<"C3", "83">>
      [] c = "U+00A9" -> <<"C2", "A9">>
      [] c = "U+00E2" -> <<"C3", "A2">>
      [] c = "U+0082" -> <<"C2", "82">>
      [] c = "U+00AC" -> <<"C2", "AC">>

RECURSIVE utf8_encode(_)
utf8_encode(payload) ==
    IF payload = << >> THEN << >>
    ELSE EncodeChar(Head(payload)) \o utf8_encode(Tail(payload))

\* The length a lead byte announces; 0 for a byte that cannot lead.
LeadWidth(b) ==
    CASE b = "61" -> 1
      [] b = "0A" -> 1
      [] b = "C2" -> 2
      [] b = "C3" -> 2
      [] b = "E2" -> 3
      [] OTHER -> 0

\* bytes.decode("utf-8"): the text, or ok = FALSE for UnicodeDecodeError.
RECURSIVE utf8_decode(_)
utf8_decode(bs) ==
    IF bs = << >> THEN [ok |-> TRUE, text |-> << >>]
    ELSE LET w == LeadWidth(bs[1])
         IN  IF \/ w = 0
                \/ w > Len(bs)
                \/ \E j \in 2 .. w : bs[j] \notin ContinuationBytes
             THEN [ok |-> FALSE, text |-> << >>]
             ELSE LET rest == utf8_decode(SubSeq(bs, w + 1, Len(bs)))
                      c == CHOOSE x \in Utf8Chars \cup Latin1Chars \cup LineChars :
                               EncodeChar(x) = SubSeq(bs, 1, w)
                  IN  IF rest.ok THEN [ok |-> TRUE, text |-> <<c>> \o rest.text]
                      ELSE [ok |-> FALSE, text |-> << >>]

\* bytes.decode("latin-1", "ignore"): every byte is the code point of its
\* own value, so nothing is ignored.
latin1_decode(bs) == [i \in 1 .. Len(bs) |-> "U+00" \o bs[i]]

\* lines 106-129: the chunks from cursor on.
RECURSIVE SplitBytesFrom(_, _, _)
SplitBytesFrom(encoded, limit, cursor) ==
    IF cursor >= Len(encoded) THEN << >>
    ELSE LET window == Slice(encoded, cursor, cursor + limit)
             decoded == utf8_decode(window)
             good == {slice_end \in 1 .. limit :
                         utf8_decode(Slice(encoded, cursor, cursor + slice_end)).ok}
             best == CHOOSE e \in good : \A x \in good : x <= e
         IN  IF decoded.ok
             THEN <<decoded.text>> \o SplitBytesFrom(encoded, limit, cursor + Len(window))
             ELSE IF good # {}
                  THEN <<utf8_decode(Slice(encoded, cursor, cursor + best)).text>>
                           \o SplitBytesFrom(encoded, limit, cursor + best)
                  ELSE <<latin1_decode(Slice(encoded, cursor, cursor + limit))>>
                           \o SplitBytesFrom(encoded, limit, cursor + limit)

\* lines 95-130
split_by_bytes(payload, limit) ==
    IF limit <= 0 THEN <<payload>>
    ELSE IF Len(utf8_encode(payload)) <= limit THEN <<payload>>
         ELSE SplitBytesFrom(utf8_encode(payload), limit, 0)

\* lines 160-167
RECURSIVE SplitTextFrom(_, _, _)
SplitTextFrom(payload, max_chars, cursor) ==
    IF cursor >= Len(payload) THEN << >>
    ELSE LET end == Min(Len(payload), cursor + max_chars)
         IN  <<Slice(payload, cursor, end)>> \o SplitTextFrom(payload, max_chars, end)

\* lines 155-167
split_text(payload, max_chars) ==
    IF max_chars <= 0 \/ Len(payload) <= max_chars THEN <<payload>>
    ELSE SplitTextFrom(payload, max_chars, 0)

\* lines 72-92: the payload is taken as parsed, a sequence of the child
\* nodes of its body; a chunk is a body holding a run of them.
\* A splitter that keeps only the groups that are full.
RECURSIVE SplitNodesFullGroups(_, _, _)
SplitNodesFullGroups(nodes, max_nodes, cursor) ==
    IF cursor + max_nodes > Len(nodes) THEN << >>
    ELSE <<(<<"<body>">> \o Slice(nodes, cursor, cursor + max_nodes) \o <<"</body>">>)>>
             \o SplitNodesFullGroups(nodes, max_nodes, cursor + max_nodes)

RECURSIVE SplitNodesFrom(_, _, _)
SplitNodesFrom(nodes, max_nodes, cursor) ==
    IF cursor >= Len(nodes) THEN << >>
    ELSE <<(<<"<body>">> \o Slice(nodes, cursor, cursor + max_nodes) \o <<"</body>">>)>>
             \o SplitNodesFrom(nodes, max_nodes, cursor + max_nodes)

split_html_by_nodes(payload, max_nodes) ==
    IF payload = << >> THEN <<payload>> ELSE SplitNodesFrom(payload, max_nodes, 0)

\* len(json.dumps(subset, ensure_ascii=False).encode("utf-8")) for a list of
\* integers: the brackets, the digits, and ", " between items.
RECURSIVE DigitsIn(_)
DigitsIn(subset) ==
    IF subset = << >> THEN 0 ELSE Len(Str(Head(subset))) + DigitsIn(Tail(subset))

JsonBytes(subset) ==
    IF subset = << >> THEN 2 ELSE 2 + DigitsIn(subset) + 2 * (Len(subset) - 1)

\* lines 180-185: data is [kind, value]: a dict with "chunks", a list, or
\* anything else.
json_items(data) ==
    IF data.kind \in {"chunks", "list"} THEN data.value ELSE <<data.value>>

\* lines 191-200: the groups from cursor on.
RECURSIVE JsonChunksFrom(_, _, _, _)
JsonChunksFrom(items, max_items, max_bytes, cursor) ==
    IF cursor >= Len(items) THEN << >>
    ELSE LET subset == Slice(items, cursor, cursor + max_items)
             half == Max(1, Len(subset) \div 2)
         IN  IF max_bytes # 0 /\ JsonBytes(subset) > max_bytes /\ Len(subset) > 1
             THEN <<Slice(subset, 0, half)>>
                      \o JsonChunksFrom(items, max_items, max_bytes,
                                        cursor + max_items - (Len(subset) - half))
             ELSE <<subset>>
                      \o JsonChunksFrom(items, max_items, max_bytes, cursor + max_items)

\* lines 219-226: a PDF of the pages of each range.
RECURSIVE PdfChunksFrom(_, _, _)
PdfChunksFrom(pages, max_pages, start) ==
    IF start >= Len(pages) THEN << >>
    ELSE <<(<<"%PDF">> \o Slice(pages, start, Min(Len(pages), start + max_pages)))>>
             \o PdfChunksFrom(pages, max_pages, start + max_pages)

\* lines 28-48: the directory after the chunks are written through
\* write_if_changed; files maps a name to the file found there.
FileAt(files, name) == IF name \in DOMAIN files THEN files[name] ELSE NoFile

RECURSIVE WritePayloadsFrom(_, _, _, _, _, _, _)
WritePayloadsFrom(files, base_name, extension, payload_list, total_parts, index, now) ==
    IF index > Len(payload_list) THEN files
    ELSE LET name == ChunkName(base_name, index, total_parts, extension)
             file == write_if_changed(FileAt(files, name), payload_list[index], now).file
         IN  WritePayloadsFrom(
                 [n \in (DOMAIN files) \cup {name} |-> IF n = name THEN file ELSE files[n]],
                 base_name, extension, payload_list, total_parts, index + 1, now)

splitters_write_chunks_as_given(files, base_name, extension, payloads, now) ==
    WritePayloadsFrom(files, base_name, extension, payloads, Len(payloads), 1, now)

splitters_write_chunks(files, base_name, extension, payloads, now) ==
    WritePayloadsFrom(files, base_name, extension,
                      IF payloads = << >> THEN << << >> >> ELSE payloads,
                      IF Len(payloads) = 0 THEN 1 ELSE Len(payloads), 1, now)

\* ------------------------------------ artifacts/pipeline.py, generate_all
\* The comments that precede the document element; white space between
\* them is no node of the tree.
RECURSIVE LeadComments(_)
LeadComments(html) ==
    IF html = << >> THEN << >>
    ELSE IF Head(html) \in Whitespace THEN LeadComments(Tail(html))
    ELSE IF IsSourceComment(Head(html)) THEN <<Head(html)>> \o LeadComments(Tail(html))
    ELSE << >>

RECURSIVE AfterLead(_)
AfterLead(html) ==
    IF html = << >> THEN << >>
    ELSE IF Head(html) \in Whitespace \/ IsSourceComment(Head(html))
         THEN AfterLead(Tail(html))
         ELSE html

\* The tokens of t that P does not hold of.
RECURSIVE Without(_, _)
Without(t, dropped) ==
    IF t = << >> THEN << >>
    ELSE (IF Head(t) \in dropped THEN << >> ELSE <<Head(t)>>) \o Without(Tail(t), dropped)

\* lines 66-69: str(BeautifulSoup(file, "lxml")).  The parser keeps comments
\* as nodes and puts the content into one document element, whether the file
\* had one or not.
soup_str(html) ==
    LeadComments(html) \o <<HtmlOpen>>
        \o Without(AfterLead(html), {HtmlOpen, HtmlClose}) \o <<HtmlClose>>

\* lines 77-80: markdownify drops comments and markup and keeps the text.
md(soup_text) ==
    Without(soup_text, {HtmlOpen, HtmlClose, Tag} \cup {SourceComment(u) : u \in SourceUrls})

\* lines 71-74: the annotation goes before the HTML whenever a URL is given.
annotated_html(soup_text, source_url) ==
    IF source_url # "" THEN <<SourceComment(source_url), NL>> \o soup_text ELSE soup_text

\* lines 81-86: str.startswith("<!-- Source URL") guards the Markdown.
annotated_markdown(markdown, source_url) ==
    IF source_url # "" /\ ~(markdown # << >> /\ IsSourceComment(Head(markdown)))
    THEN <<SourceComment(source_url), NL>> \o markdown
    ELSE markdown

\* artifacts/pipeline.py lines 40-115; base_filename is given by every caller.
generate_all(f, rendered_html_path, markdown_output_dir, chunk_char_limit, label, source_url, html_output_dir, base_filename) ==
    markdown_generate(
        html_generate(f, annotated_html(soup_str(f.files[rendered_html_path].data), source_url),
                      html_output_dir, base_filename, label, chunk_char_limit, source_url),
        annotated_markdown(md(soup_str(f.files[rendered_html_path].data)), source_url),
        markdown_output_dir, base_filename, label, chunk_char_limit, source_url,
        annotated_html(soup_str(f.files[rendered_html_path].data), source_url))

\* ------------------------------- artifacts/pipeline.py, domain aggregates
\* The directory names a domain root can hold, in the order sorted() gives
\* them ("_" sorts before the letters).
DirNames == <<"_domain", "a", "b", "c">>
ItemDir(root, name) == root \o "/" \o name
LegacyHtml == <<"aggregate", ".html">>
LegacyMarkdown == <<"aggregate", ".md">>

\* sorted(...) of a set of directory names.
RECURSIVE SortNames(_)
SortNames(names) ==
    IF names = {} THEN << >>
    ELSE LET Rank(n) == CHOOSE i \in 1 .. Len(DirNames) : DirNames[i] = n
             least == CHOOSE n \in names : \A m \in names : Rank(n) <= Rank(m)
         IN  <<least>> \o SortNames(names \ {least})

\* pipeline.py lines 127-136: the item directories of a root, sorted,
\* "_domain" left out.
slug_dirs(f, root) ==
    SortNames({DirNames[i] : i \in {j \in 1 .. Len(DirNames) :
                                       /\ ItemDir(root, DirNames[j]) \in f.dirs
                                       /\ DirNames[j] # "_domain"}})

\* lines 141-155: the HTML fragments of the items that have an aggregate.html.
RECURSIVE domain_html_fragments(_, _, _)
domain_html_fragments(f, root, dirs) ==
    IF dirs = << >> THEN << >>
    ELSE LET aggregate_path == <<ItemDir(root, Head(dirs)), LegacyHtml>>
         IN  (IF ~Exists(f, aggregate_path) THEN << >>
              ELSE <<strip(Join(<<NL>>,
                                << <<"<!-- Start: " \o Head(dirs) \o " -->">>,
                                   strip(f.files[aggregate_path].data),
                                   <<"<!-- End: " \o Head(dirs) \o " -->">> >>))>>)
                 \o domain_html_fragments(f, root, Tail(dirs))

\* lines 157-165: the Markdown fragments of the items that have an aggregate.md.
RECURSIVE domain_markdown_fragments(_, _, _)
domain_markdown_fragments(f, root, dirs) ==
    IF dirs = << >> THEN << >>
    ELSE LET aggregate_path == <<ItemDir(root, Head(dirs)), LegacyMarkdown>>
         IN  (IF ~Exists(f, aggregate_path) THEN << >>
              ELSE << <<"# Source · " \o Head(dirs), NL, NL>>
                         \o strip(f.files[aggregate_path].data) >>)
                 \o domain_markdown_fragments(f, root, Tail(dirs))

\* lines 170-173
domain_payload(fragments) == strip(Join(<<NL, NL>>, fragments)) \o <<NL>>

write_domain_aggregates_of_first_item(f, domain_label, rendered_domain_root, markdown_domain_root, chunk_char_limit) ==
    LET First(dirs) == IF dirs = << >> THEN << >> ELSE <<Head(dirs)>>
        html_fragments == domain_html_fragments(f, rendered_domain_root,
                              First(slug_dirs(f, rendered_domain_root)))
        markdown_fragments == domain_markdown_fragments(f, markdown_domain_root,
                                  First(slug_dirs(f, markdown_domain_root)))
    IN  IF html_fragments = << >> \/ markdown_fragments = << >> THEN f
        ELSE markdown_generate(
                 html_generate(f, domain_payload(html_fragments),
                               ItemDir(rendered_domain_root, "_domain"), domain_label,
                               Head(domain_label) \o " aggregate", chunk_char_limit, ""),
                 domain_payload(markdown_fragments),
                 ItemDir(markdown_domain_root, "_domain"), domain_label,
                 Head(domain_label) \o " aggregate", chunk_char_limit, "",
                 domain_payload(html_fragments))

\* lines 118-195
write_domain_aggregates(f, domain_label, rendered_domain_root, markdown_domain_root, chunk_char_limit) ==
    LET slug_render_dirs == slug_dirs(f, rendered_domain_root)
        slug_markdown_dirs == slug_dirs(f, markdown_domain_root)
        html_fragments == domain_html_fragments(f, rendered_domain_root, slug_render_dirs)
        markdown_fragments ==
            domain_markdown_fragments(f, markdown_domain_root, slug_markdown_dirs)
    IN  IF slug_render_dirs = << >> \/ slug_markdown_dirs = << >> THEN f
        ELSE IF html_fragments = << >> \/ markdown_fragments = << >> THEN f
             ELSE markdown_generate(
                      html_generate(f, domain_payload(html_fragments),
                                    ItemDir(rendered_domain_root, "_domain"), domain_label,
                                    Head(domain_label) \o " aggregate", chunk_char_limit, ""),
                      domain_payload(markdown_fragments),
                      ItemDir(markdown_domain_root, "_domain"), domain_label,
                      Head(domain_label) \o " aggregate", chunk_char_limit, "",
                      domain_payload(html_fragments))

\* ------------------------------------------------------------------ state
VARIABLES
    text,        \* split_text_on_newlines: the argument text
    max_chars,   \* split_text_on_newlines: the argument max_chars
    cursor,      \* split_text_on_newlines: local cursor
    chunks,      \* split_text_on_newlines: local chunks
    split_pc,    \* "loop" while the while-loop runs, "done" after return
    target,      \* write_if_changed: the file at the path written
    clock,       \* write_if_changed: the time, advancing with every operation
    last_write,  \* write_if_changed: the last call (data, file before, result)
    fs,          \* the file system: directories, files, log of the running operation
    last_pass,   \* per generator, what its most recent pass was given and produced
    before,      \* the files before the most recent pass, and who had written them
    owner,       \* per path, the base_name of the document whose pass wrote it
    passes,      \* generation passes made so far
    doc,         \* the document of the cycle: aggregate HTML, Markdown, chunk limit
    pc,          \* fan_out_artifacts: "idle", the stage to decide next, or how it ended
    call,        \* fan_out_artifacts: arguments, resolved payloads, decisions taken
    fs0,         \* the file system when the running fan_out_artifacts call began
    calls,       \* fan_out_artifacts calls made so far
    damage,      \* files lost or spoiled so far
    naming,      \* a chunk file being named by write_chunks and parsed back
    splitting,   \* a splitter of pipelines/common/splitters.py at work on a file
    runs,        \* concurrent markdown generate() runs: arguments, position, locals
    fetch,       \* fetch_and_render: arguments, position, locals, page and file
    convert,     \* generate_all passes over one document: arguments, passes made
    urls,        \* process_urls over a domain: options, position, results
    pdfs         \* process_pdf_dataset: arguments, position, what each PDF got

splitVars == <<text, max_chars, cursor, chunks, split_pc>>
writeVars == <<target, clock, last_write>>
genVars == <<fs, last_pass, before, owner, passes>>
fanVars == <<doc, pc, call, fs0, calls, damage>>
jobVars == <<fetch, convert, urls, pdfs>>
utilVars == <<naming, splitting, runs, jobVars>>
vars == <<splitVars, writeVars, genVars, fanVars, utilVars>>

SplitIdle ==
    /\ text = << >> /\ max_chars = 1 /\ cursor = 0 /\ chunks = << >>
    /\ split_pc = "idle"
WriteIdle ==
    /\ target = NoFile /\ clock = 0
    /\ last_write = [called |-> FALSE]
NoPass == [total |-> 0, shrunk |-> FALSE, base_name |-> << >>,
           payload |-> << >>, limit |-> 0]
NoName == [pc |-> "idle", base_name |-> << >>, extension |-> "", index |-> 0,
           total |-> 0, name |-> << >>, parsed |-> <<0, 0>>]
NoSplitting == [pc |-> "idle", kind |-> "none", payload |-> << >>, limit |-> 0,
                max_bytes |-> 0, chunks |-> << >>, files |-> << >>, pass |-> 0]
NoRuns == << >>
NoFetch == [pc |-> "idle"]
NoConvert == [passes |-> 0]
NoUrls == [pc |-> "idle"]
NoPdfs == [pc |-> "idle"]
JobIdle == fetch = NoFetch /\ convert = NoConvert /\ urls = NoUrls /\ pdfs = NoPdfs
UtilIdle ==
    /\ naming = NoName
    /\ splitting = NoSplitting
    /\ runs = NoRuns
    /\ JobIdle
NoCall == [overwrite |-> FALSE, html |-> << >>, markdown |-> << >>,
           text |-> "none", json |-> "none", pdf |-> "none"]
FanIdle ==
    /\ doc = [html |-> << >>, markdown |-> << >>, limit |-> 1]
    /\ pc = "idle"
    /\ call = NoCall
    /\ fs0 = EmptyFS
    /\ calls = 0
    /\ damage = 0
GenIdle ==
    /\ fs = EmptyFS
    /\ last_pass = [html |-> NoPass, markdown |-> NoPass, text |-> NoPass]
    /\ before = [files |-> << >>, owner |-> << >>]
    /\ owner = << >>
    /\ passes = 0

\* --------------------------------------- split_text_on_newlines, stepwise
SplitInit ==
    /\ text \in SeqsUpTo(Chars, MaxLen)
    /\ max_chars \in 1 .. MaxLimit
    /\ cursor = 0
    /\ chunks = << >>
    /\ split_pc = "loop"
    /\ WriteIdle
    /\ GenIdle
    /\ FanIdle
    /\ UtilIdle

\* Lines 23-24: the empty text returns [""] at once.
SplitEmpty ==
    /\ split_pc = "loop"
    /\ text = << >>
    /\ chunks' = << << >> >>
    /\ split_pc' = "done"
    /\ UNCHANGED <<text, max_chars, cursor, writeVars, genVars, fanVars, utilVars>>

\* Lines 29-39: one iteration of the while loop.
SplitStep ==
    /\ split_pc = "loop"
    /\ text # << >>
    /\ cursor < Len(text)
    /\ LET limit == WindowLimit(text, cursor, max_chars)
       IN  /\ chunks' = Append(chunks, Segment(text, cursor, limit, max_chars))
           /\ cursor' = limit
    /\ UNCHANGED <<text, max_chars, split_pc, writeVars, genVars, fanVars, utilVars>>

\* Line 40: the loop condition fails and the chunks are returned.
SplitReturn ==
    /\ split_pc = "loop"
    /\ text # << >>
    /\ cursor >= Len(text)
    /\ split_pc' = "done"
    /\ UNCHANGED <<text, max_chars, cursor, chunks, writeVars, genVars, fanVars, utilVars>>

SplitNext == SplitEmpty \/ SplitStep \/ SplitReturn

SpecSplit == SplitInit /\ [][SplitNext]_vars

\* ------------------------------------------- the chunk limit of a run
\* artifacts/pipeline.py line 29
DEFAULT_CHUNK_CHAR_LIMIT == 40000

\* What a configuration holds under a key: nothing, an integer, or a value
\* int() does not take (a word, null, a list).
ConfigValues ==
    {<<"absent", 0>>, <<"bad", 0>>} \cup {<<"int", n>> : n \in -1 .. MaxConfigLimit}

\* load_config: a ConfigError (no file), or the mapping of the file.
Configs ==
    [error : BOOLEAN, chunk_char_limit : ConfigValues, split_parts : ConfigValues]

\* lines 315-320 / 770-775, the configuration loaded: the limit returned, or
\* the ValueError / TypeError of int().
limit_from_config(config) ==
    IF config.chunk_char_limit[1] # "absent"
    THEN IF config.chunk_char_limit[1] = "bad" THEN [out |-> "raise", limit |-> 0]
         ELSE [out |-> "return", limit |-> Max(1, config.chunk_char_limit[2])]
    ELSE IF config.split_parts[1] = "bad" THEN [out |-> "raise", limit |-> 0]
         ELSE LET split_parts == IF config.split_parts[1] = "absent" THEN 5
                                 ELSE config.split_parts[2]
              IN  [out |-> "return",
                   limit |-> Max(1, (DEFAULT_CHUNK_CHAR_LIMIT * split_parts) \div 5)]

\* The limit taken from the configuration as it stands.
limit_unclamped(config_path, config) ==
    IF config.error \/ config.chunk_char_limit[1] # "int"
    THEN [out |-> "return", limit |-> DEFAULT_CHUNK_CHAR_LIMIT]
    ELSE [out |-> "return", limit |-> config.chunk_char_limit[2]]

\* process_pending_inputs.py lines 305-320; config_path is TRUE when --config is given.
load_chunk_char_limit(config_path, config) ==
    IF config.error
    THEN IF config_path THEN [out |-> "exit", limit |-> 0]
         ELSE [out |-> "return", limit |-> DEFAULT_CHUNK_CHAR_LIMIT]
    ELSE limit_from_config(config)

\* process_urls.py lines 762-775
resolve_chunk_char_limit(config_path, config) ==
    IF config.error THEN [out |-> "return", limit |-> DEFAULT_CHUNK_CHAR_LIMIT]
    ELSE limit_from_config(config)

\* A run is about to resolve its chunk limit and then to split a text.
LimitInit ==
    /\ text \in SeqsUpTo(Chars, MaxLen)
    /\ max_chars = 0
    /\ cursor = 0
    /\ chunks = << >>
    /\ split_pc = "config"
    /\ WriteIdle
    /\ GenIdle
    /\ FanIdle
    /\ UtilIdle

\* process_pending_inputs.py line 651: the limit of the run, or its end.
LoadChunkCharLimit ==
    /\ split_pc = "config"
    /\ \E config_path \in BOOLEAN, config \in Configs :
          LET got == load_chunk_char_limit(config_path, config)
          IN  /\ max_chars' = got.limit
              /\ split_pc' = IF got.out = "return" THEN "loop" ELSE got.out
    /\ UNCHANGED <<text, cursor, chunks, writeVars, genVars, fanVars, utilVars>>

\* process_urls.py line 861
ResolveChunkCharLimit ==
    /\ split_pc = "config"
    /\ \E config_path \in BOOLEAN, config \in Configs :
          LET got == resolve_chunk_char_limit(config_path, config)
          IN  /\ max_chars' = got.limit
              /\ split_pc' = IF got.out = "return" THEN "loop" ELSE got.out
    /\ UNCHANGED <<text, cursor, chunks, writeVars, genVars, fanVars, utilVars>>

LimitNext ==
    \/ ResolveChunkCharLimit
    \/ LoadChunkCharLimit
    \/ SplitEmpty
    \/ SplitStep
    \/ SplitReturn

\* The run is a sequential program: it takes its next step while it has one.
SpecLimit == LimitInit /\ [][LimitNext]_vars /\ WF_vars(LimitNext)

\* --------------------------------- process_urls.py: fetch_and_render
\* process_urls.py lines 39-50
DEFAULT_WAIT_UNTIL == "load"
DEFAULT_TIMEOUT_MS == 60000
FALLBACK_WAIT_UNTIL == "domcontentloaded"
FETCH_ATTEMPTS ==
    << <<DEFAULT_WAIT_UNTIL, DEFAULT_TIMEOUT_MS \div 2>>,
       <<FALLBACK_WAIT_UNTIL, DEFAULT_TIMEOUT_MS>>,
       <<"networkidle", (DEFAULT_TIMEOUT_MS * 3) \div 2>> >>

\* The attempts argument: the default, a prefix of it (the default gone
\* round again when longer), or the same configurations in another order.
AttemptLists ==
    {[k \in 1 .. n |-> FETCH_ATTEMPTS[((k - 1) % Len(FETCH_ATTEMPTS)) + 1]] :
        n \in 0 .. MaxAttempts}
        \cup {<<FETCH_ATTEMPTS[3], FETCH_ATTEMPTS[1]>>}

\* FetchAttemptResult, lines 67-81 (elapsed_ms and message left out)
FetchAttemptResult(attempt, config, status, screenshot) ==
    [attempt |-> attempt, wait_until |-> config[1], timeout_ms |-> config[2],
     status |-> status, screenshot |-> screenshot]

\* The destination file: absent, the HTML of an earlier run, the HTML of an
\* attempt of this call, or what a failed write of an attempt left.
File(holds, attempt) == [holds |-> holds, attempt |-> attempt]

\* A call of fetch_and_render is entered: the destination is absent or holds
\* the HTML of an earlier run; no page is open.
FetchInit ==
    /\ \E attempts \in AttemptLists, destination \in {File("absent", 0), File("earlier", 0)} :
          fetch = [pc |-> "for", attempts |-> attempts, attempt_index |-> 0,
                   attempt_records |-> << >>, open |-> {}, opened |-> << >>,
                   destination |-> destination, shots |-> {},
                   after |-> "none", result |-> "none"]
    /\ SplitIdle
    /\ WriteIdle
    /\ GenIdle
    /\ FanIdle
    /\ naming = NoName
    /\ splitting = NoSplitting
    /\ runs = NoRuns
    /\ convert = NoConvert /\ urls = NoUrls /\ pdfs = NoPdfs

FetchFrame ==
    UNCHANGED <<splitVars, writeVars, genVars, fanVars, naming, splitting, runs,
                convert, urls, pdfs>>

\* lines 698-703: the next attempt of the loop, and its page.
FetchNewPage ==
    /\ fetch.pc = "for"
    /\ fetch.attempt_index < Len(fetch.attempts)
    /\ fetch' = [fetch EXCEPT !.attempt_index = @ + 1,
                              !.open = @ \cup {fetch.attempt_index + 1},
                              !.opened = Append(@, Len(fetch.attempt_records)),
                              !.pc = "goto"]
    /\ FetchFrame

\* line 705: page.goto returns, times out, or fails.
FetchGoto ==
    /\ fetch.pc = "goto"
    /\ \E outcome \in {"content", "timeout", "error"} :
          fetch' = [fetch EXCEPT !.pc = outcome]
    /\ FetchFrame

\* line 706: page.content returns the HTML or fails.
FetchContent ==
    /\ fetch.pc = "content"
    /\ \E outcome \in {"write", "error"} : fetch' = [fetch EXCEPT !.pc = outcome]
    /\ FetchFrame

\* lines 707-717: write_text puts the HTML into the destination, the
\* success record is appended and True is to be returned; or write_text
\* raises OSError, with the file untouched or opened and cut short.
FetchWrite ==
    /\ fetch.pc = "write"
    /\ \/ fetch' = [fetch EXCEPT
                      !.destination = File("html", fetch.attempt_index),
                      !.attempt_records = Append(@, FetchAttemptResult(
                          fetch.attempt_index, fetch.attempts[fetch.attempt_index],
                          "success", "none")),
                      !.after = "return True",
                      !.pc = "finally"]
       \/ \E left \in {fetch.destination, File("partial", fetch.attempt_index)} :
             fetch' = [fetch EXCEPT !.destination = left, !.pc = "error"]
    /\ FetchFrame

\* lines 719-742: the timeout handler takes a screenshot if it can and
\* appends the timeout record; the loop is to go on.
FetchTimeout ==
    /\ fetch.pc = "timeout"
    /\ \E taken \in BOOLEAN :
          fetch' = [fetch EXCEPT
                      !.shots = IF taken THEN @ \cup {fetch.attempt_index} ELSE @,
                      !.attempt_records = Append(@, FetchAttemptResult(
                          fetch.attempt_index, fetch.attempts[fetch.attempt_index],
                          "timeout", IF taken THEN "png" ELSE "none")),
                      !.after = "continue",
                      !.pc = "finally"]
    /\ FetchFrame

\* lines 743-754: the handler of PlaywrightError and OSError.
FetchError ==
    /\ fetch.pc = "error"
    /\ fetch' = [fetch EXCEPT
                   !.attempt_records = Append(@, FetchAttemptResult(
                       fetch.attempt_index, fetch.attempts[fetch.attempt_index],
                       "error", "none")),
                   !.after = "return False",
                   !.pc = "finally"]
    /\ FetchFrame

\* The finally clause leaves the page of the attempt open.
FetchLeaveOpen ==
    /\ fetch.pc = "finally"
    /\ fetch' = [fetch EXCEPT
                   !.pc = IF fetch.after = "continue" THEN "for" ELSE "returned",
                   !.result = IF fetch.after = "continue" THEN "none" ELSE fetch.after,
                   !.after = "none"]
    /\ FetchFrame

\* lines 755-756: page.close(), then the return or the next iteration.
FetchFinally ==
    /\ fetch.pc = "finally"
    /\ fetch' = [fetch EXCEPT
                   !.open = @ \ {fetch.attempt_index},
                   !.pc = IF fetch.after = "continue" THEN "for" ELSE "returned",
                   !.result = IF fetch.after = "continue" THEN "none" ELSE fetch.after,
                   !.after = "none"]
    /\ FetchFrame

\* line 758: the attempts are used up.
FetchExhausted ==
    /\ fetch.pc = "for"
    /\ fetch.attempt_index = Len(fetch.attempts)
    /\ fetch' = [fetch EXCEPT !.pc = "returned", !.result = "return False"]
    /\ FetchFrame

FetchNext ==
    \/ FetchNewPage
    \/ FetchGoto
    \/ FetchContent
    \/ FetchWrite
    \/ FetchTimeout
    \/ FetchError
    \/ FetchFinally
    \/ FetchExhausted

SpecFetch == FetchInit /\ [][FetchNext]_vars

\* ------------------------------------------------- write_if_changed calls
WriteInit ==
    /\ SplitIdle
    /\ GenIdle
    /\ FanIdle
    /\ UtilIdle
    /\ target = NoFile
    /\ clock = 1
    /\ last_write = [called |-> FALSE]

\* One call write_if_changed(path, data), lines 25-33.
WriteIfChanged ==
    /\ clock < MaxClock
    /\ \E data \in SeqsUpTo(Bytes, MaxData) :
          LET out == write_if_changed(target, data, clock)
          IN  /\ target' = out.file
              /\ last_write' = [called |-> TRUE, data |-> data, before |-> target,
                                ret |-> out.ret,
                                repeat |-> last_write.called /\ last_write.data = data]
    /\ clock' = clock + 1
    /\ UNCHANGED <<splitVars, genVars, fanVars, utilVars>>

\* Something else removes the file between two calls.
RemoveTarget ==
    /\ clock < MaxClock
    /\ target.exists
    /\ target' = NoFile
    /\ last_write' = [called |-> FALSE]
    /\ clock' = clock + 1
    /\ UNCHANGED <<splitVars, genVars, fanVars, utilVars>>

WriteNext == WriteIfChanged \/ RemoveTarget

SpecWrite == WriteInit /\ [][WriteNext]_vars

\* ------------------------------------------------------ generation passes
\* Both generators write into one directory, as generate_all does when it is
\* given no html_output_dir (artifacts/pipeline.py lines 58-62).
OutDir == "out"
DefaultBase == <<"rendered_chat">>
Label == "chat"

\* The base names of the documents that share OutDir.
Bases == {DefaultBase, <<"rendered_pdf">>}

GenInit ==
    /\ SplitIdle
    /\ WriteIdle
    /\ GenIdle
    /\ FanIdle
    /\ UtilIdle

StartLog(f) == [f EXCEPT !.log = {}]

\* The writer of every path of f1, an operation of base_name having just run.
Owned(f1, own, base_name) ==
    [q \in DOMAIN f1.files |->
        IF <<"write", q>> \in f1.log \/ q \notin DOMAIN own THEN base_name ELSE own[q]]

PassRecord(previous, base_name, payload, limit) ==
    [total |-> Len(split_text_on_newlines(payload, limit)),
     shrunk |-> /\ previous.base_name = base_name
                /\ previous.total > Len(split_text_on_newlines(payload, limit)),
     base_name |-> base_name, payload |-> payload, limit |-> limit]

\* What a pass leaves in the variables that follow the passes.  A pass is
\* tracked (counted, with the files before it and their writers kept) where
\* documents share the directory, and untracked where one document is
\* regenerated without end.
Tracked(after, base_name, tracked) ==
    IF tracked
    THEN /\ passes < MaxPasses
         /\ fs' = after
         /\ owner' = Owned(after, owner, base_name)
         /\ before' = [files |-> fs.files, owner |-> owner]
         /\ passes' = passes + 1
    ELSE /\ fs' = StartLog(after)
         /\ UNCHANGED <<owner, before, passes>>

\* One pass of the HTML generator, artifacts/formats/html.py lines 13-61.
HtmlPass(base_name, tracked) ==
    /\ \E payload \in GenTexts, limit \in 1 .. MaxGenLimit :
          /\ Tracked(html_generate(StartLog(fs), payload, OutDir, base_name, Label,
                                   limit, ""),
                     base_name, tracked)
          /\ last_pass' = [last_pass EXCEPT
                              !.html = PassRecord(@, base_name, payload, limit)]
    /\ UNCHANGED <<splitVars, writeVars, fanVars, utilVars>>

\* One pass of the Markdown generator, artifacts/formats/markdown.py lines
\* 18-79.  Its callers (artifacts/pipeline.py lines 87-104 and 178-195) run it
\* after the HTML generator and hand it the aggregate HTML that one wrote.
MarkdownPass(base_name, tracked) ==
    /\ Exists(fs, <<OutDir, AggregateName(base_name, ".html")>>)
    /\ \E payload \in GenTexts, limit \in 1 .. MaxGenLimit :
          /\ Tracked(markdown_generate(StartLog(fs), payload, OutDir, base_name, Label,
                                       limit, "",
                                       fs.files[<<OutDir, AggregateName(base_name, ".html")>>].data),
                     base_name, tracked)
          /\ last_pass' = [last_pass EXCEPT
                              !.markdown = PassRecord(@, base_name, payload, limit)]
    /\ UNCHANGED <<splitVars, writeVars, fanVars, utilVars>>

\* Passes of several documents into the shared directory.
GenNext ==
    \E base_name \in Bases : HtmlPass(base_name, TRUE) \/ MarkdownPass(base_name, TRUE)

SpecGen == GenInit /\ [][GenNext]_vars

\* Passes of one document, again and again.
RegenNext == HtmlPass(DefaultBase, FALSE) \/ MarkdownPass(DefaultBase, FALSE)

SpecRegen == GenInit /\ [][RegenNext]_vars

\* ------------------------------------------------------- text generator
\* Passes of generate_text_artifacts over aggregates of text, newlines and
\* markup.
TextPass ==
    /\ \E aggregate_html \in SeqsUpTo(Chars \cup {Tag}, MaxHtmlLen),
          chunk_char_limit \in 1 .. MaxGenLimit :
          /\ fs' = StartLog(generate_text_artifacts(StartLog(fs), aggregate_html, OutDir,
                                                    chunk_char_limit, DefaultBase))
          /\ last_pass' = [last_pass EXCEPT
                !.text = [NoPass EXCEPT
                            !.base_name = DefaultBase,
                            !.payload = aggregate_html,
                            !.limit = chunk_char_limit,
                            !.total = Len(split_text_on_newlines(
                                              extract_plain_text(aggregate_html),
                                              chunk_char_limit))]]
    /\ UNCHANGED <<splitVars, writeVars, before, owner, passes, fanVars, utilVars>>

SpecText == GenInit /\ [][TextPass]_vars

\* ----------------------------------------------------- domain aggregates
\* A domain whose items were rendered before: under each root an item
\* directory is absent, or present without its aggregate, or holds one.
RenderedRoot == "rendered"
MarkdownRoot == "markdown"
DomainLabel == <<"example.com">>
Slugs == {"a", "b", "c"}
DomainTexts == {<<"a">>, <<NL, "a", NL>>}
ItemStates ==
    {[kind |-> "absent", data |-> << >>], [kind |-> "empty", data |-> << >>]}
        \cup {[kind |-> "held", data |-> t] : t \in DomainTexts}
MarkdownItemStates == {s \in ItemStates : s.kind # "empty"}

DomainFS(rendered, markdown) ==
    LET held == {<<ItemDir(RenderedRoot, s), LegacyHtml>> :
                    s \in {x \in Slugs : rendered[x].kind = "held"}}
                \cup {<<ItemDir(MarkdownRoot, s), LegacyMarkdown>> :
                         s \in {x \in Slugs : markdown[x].kind = "held"}}
        SlugOf(path) == CHOOSE s \in Slugs :
                            path[1] \in {ItemDir(RenderedRoot, s), ItemDir(MarkdownRoot, s)}
    IN  [dirs |-> {ItemDir(RenderedRoot, s) : s \in {x \in Slugs : rendered[x].kind # "absent"}}
                  \cup {ItemDir(MarkdownRoot, s) :
                           s \in {x \in Slugs : markdown[x].kind # "absent"}},
         files |-> [path \in held |->
                       OkFile(IF path[2] = LegacyHtml THEN rendered[SlugOf(path)].data
                              ELSE markdown[SlugOf(path)].data)],
         log |-> {}]

DomainInit ==
    /\ SplitIdle
    /\ WriteIdle
    /\ FanIdle
    /\ UtilIdle
    /\ \E rendered \in [Slugs -> ItemStates], markdown \in [Slugs -> MarkdownItemStates] :
          fs = DomainFS(rendered, markdown)
    /\ last_pass = [html |-> NoPass, markdown |-> NoPass, text |-> NoPass]
    /\ before = [files |-> << >>, owner |-> << >>]
    /\ owner = << >>
    /\ passes = 0

\* artifacts/pipeline.py lines 118-195, once per run over the domain.
WriteDomainAggregates ==
    /\ passes < MaxDomainRuns
    /\ \E chunk_char_limit \in 1 .. MaxGenLimit :
          fs' = write_domain_aggregates(StartLog(fs), DomainLabel, RenderedRoot,
                                        MarkdownRoot, chunk_char_limit)
    /\ passes' = passes + 1
    /\ UNCHANGED <<splitVars, writeVars, last_pass, before, owner, fanVars, utilVars>>

SpecDomain == DomainInit /\ [][WriteDomainAggregates]_vars

\* ------------------------------------------------------ fan-out cycles
\* The five directories of a document (pipelines/openai_export/runner.py
\* lines 45-49) and the aggregate each stage looks for.
HtmlDir == "html"
MarkdownDir == "markdown"
TextDir == "text"
JsonDir == "json"
PdfDir == "pdf"
FanDirs == <<HtmlDir, MarkdownDir, TextDir, JsonDir, PdfDir>>
HtmlAggregate == <<HtmlDir, AggregateName(DefaultBase, ".html")>>
MarkdownAggregate == <<MarkdownDir, AggregateName(DefaultBase, ".md")>>
TextAggregate == <<TextDir, AggregateName(DefaultBase, ".text")>>
JsonAggregate == <<JsonDir, AggregateName(DefaultBase, ".json")>>
PdfAggregate == <<PdfDir, AggregateName(DefaultBase, ".pdf")>>

\* The documents of a cycle: an aggregate HTML of one chunk or of several
\* (with markup), an aggregate Markdown of one chunk or of several.
FanHtmlTexts == {<<"a">>, <<"<p>", "a">>}
FanMarkdownTexts == {<<"a">>, <<"a", "a">>}

FanInit ==
    /\ SplitIdle
    /\ WriteIdle
    /\ GenIdle
    /\ doc \in [html : FanHtmlTexts, markdown : FanMarkdownTexts, limit : 1 .. MaxFanLimit]
    /\ pc = "idle"
    /\ call = NoCall
    /\ fs0 = EmptyFS
    /\ calls = 0
    /\ damage = 0
    /\ UtilIdle

FanFrame == UNCHANGED <<splitVars, writeVars, last_pass, before, owner, passes, utilVars>>

\* artifacts/pipeline.py lines 87-104: the conversion that precedes the
\* fan-out writes the aggregates and chunks of the cycle's document.
GenerateAll ==
    /\ pc = "idle"
    /\ LET fs1 == html_generate(StartLog(fs), doc.html, HtmlDir, DefaultBase, Label,
                                doc.limit, "")
           fs2 == markdown_generate(fs1, doc.markdown, MarkdownDir, DefaultBase, Label,
                                    doc.limit, "", doc.html)
       IN  fs' = StartLog(fs2)
    /\ FanFrame
    /\ UNCHANGED fanVars

\* Between calls a chunk file of the HTML or Markdown directory is lost,
\* becomes unreadable or stops being UTF-8, or an aggregate is lost.
DamagedFile(f, path, how) ==
    IF how = "lost" THEN StartLog(Unlink(f, path))
    ELSE [f EXCEPT !.files[path].st = how]

Damage ==
    /\ pc = "idle"
    /\ damage < MaxDamage
    /\ \E path \in DOMAIN fs.files, how \in {"lost", "oserror", "undecodable"} :
          /\ \/ path \in {HtmlAggregate, MarkdownAggregate} /\ how = "lost"
             \/ /\ path[1] \in {HtmlDir, MarkdownDir}
                /\ parse_chunk_indices(path[2])[1] # 0
          /\ fs' = DamagedFile(fs, path, how)
    /\ damage' = damage + 1
    /\ FanFrame
    /\ UNCHANGED <<doc, pc, call, fs0, calls>>

RECURSIVE MkdirAll(_, _)
MkdirAll(f, ds) == IF ds = << >> THEN f ELSE MkdirAll(Mkdir(f, Head(ds)), Tail(ds))

\* artifact_fanout.py lines 308-309
make_directories(f) == MkdirAll(f, FanDirs)

\* lines 332, 346, 367: whether a stage runs.
stage_always_runs(overwrite, aggregate_exists) == TRUE

stage_runs(overwrite, aggregate_exists) == overwrite \/ ~aggregate_exists

\* lines 292-329: the call is made; the directories are created, the
\* payloads not passed in are read from their aggregates, and the call goes
\* on to the text stage or returns at once.
FanOutCall ==
    /\ pc = "idle"
    /\ calls < MaxCalls
    /\ \E overwrite \in BOOLEAN, passed \in BOOLEAN :
          LET fs1 == make_directories(StartLog(fs))
              html_resolved == passed \/ Exists(fs1, HtmlAggregate)
              markdown_resolved == passed \/ Exists(fs1, MarkdownAggregate)
          IN  /\ fs' = fs1
              /\ call' = [overwrite |-> overwrite,
                          html |-> IF passed THEN doc.html
                                   ELSE IF html_resolved THEN fs1.files[HtmlAggregate].data
                                        ELSE << >>,
                          markdown |-> IF passed THEN doc.markdown
                                       ELSE IF markdown_resolved
                                            THEN fs1.files[MarkdownAggregate].data
                                            ELSE << >>,
                          text |-> "none", json |-> "none", pdf |-> "none"]
              /\ pc' = IF html_resolved /\ markdown_resolved THEN "NeedsText" ELSE "Aborted"
    /\ fs0' = fs
    /\ calls' = calls + 1
    /\ FanFrame
    /\ UNCHANGED <<doc, damage>>

\* lines 331-343
TextStage ==
    /\ pc = "NeedsText"
    /\ IF stage_runs(call.overwrite, Exists(fs, TextAggregate))
       THEN /\ fs' = generate_text_artifacts(fs, call.html, TextDir, doc.limit, DefaultBase)
            /\ call' = [call EXCEPT !.text = "run"]
       ELSE /\ fs' = fs
            /\ call' = [call EXCEPT !.text = "skip"]
    /\ pc' = "NeedsJson"
    /\ FanFrame
    /\ UNCHANGED <<doc, fs0, calls, damage>>

\* lines 345-364; an exception of the JSON generator ends the call.
JsonStage ==
    /\ pc = "NeedsJson"
    /\ IF stage_runs(call.overwrite, Exists(fs, JsonAggregate))
       THEN LET out == generate_json_artifacts(fs, Label, call.html, call.markdown,
                           TextDir, HtmlDir, MarkdownDir, JsonDir, doc.limit, "",
                           DefaultBase)
            IN  /\ fs' = out.fs
                /\ call' = [call EXCEPT !.json = "run"]
                /\ pc' = IF out.raised THEN "Raised" ELSE "NeedsPdf"
       ELSE /\ fs' = fs
            /\ call' = [call EXCEPT !.json = "skip"]
            /\ pc' = "NeedsPdf"
    /\ FanFrame
    /\ UNCHANGED <<doc, fs0, calls, damage>>

\* lines 366-378
PdfStage ==
    /\ pc = "NeedsPdf"
    /\ IF stage_runs(call.overwrite, Exists(fs, PdfAggregate))
       THEN \E browser_ok \in [PdfSources(fs, HtmlDir, DefaultBase) -> BOOLEAN] :
                /\ fs' = generate_pdf_artifacts(fs, HtmlDir, PdfDir, DefaultBase, browser_ok)
                /\ call' = [call EXCEPT !.pdf = "run"]
       ELSE /\ fs' = fs
            /\ call' = [call EXCEPT !.pdf = "skip"]
    /\ pc' = "Done"
    /\ FanFrame
    /\ UNCHANGED <<doc, fs0, calls, damage>>

\* The call has ended (returned, or raised) and the caller goes on.
FanOutReturn ==
    /\ pc \in {"Done", "Aborted", "Raised"}
    /\ pc' = "idle"
    /\ fs' = StartLog(fs)
    /\ call' = NoCall
    /\ fs0' = EmptyFS
    /\ FanFrame
    /\ UNCHANGED <<doc, calls, damage>>

FanNext ==
    \/ GenerateAll
    \/ Damage
    \/ FanOutCall
    \/ TextStage
    \/ JsonStage
    \/ PdfStage
    \/ FanOutReturn

SpecFan == FanInit /\ [][FanNext]_vars

\* ------------------------------------------------------ chunk file names
\* Base names are slugs over [A-Za-z0-9._-] (process_urls.py line 310): a
\* letter, a digit, a dot, and the runs "_part_" and "_of_".
BaseTokens == {"a", "1", ".", "_part_", "_of_"}
NameExtensions == {".html", ".json"}

NameInit ==
    /\ SplitIdle
    /\ WriteIdle
    /\ GenIdle
    /\ FanIdle
    /\ \E base_name \in SeqsUpTo(BaseTokens, MaxBaseLen) \ {<< >>},
          extension \in NameExtensions, total \in 1 .. MaxTotal, index \in 1 .. MaxTotal :
          /\ index <= total
          /\ naming = [NoName EXCEPT !.base_name = base_name, !.extension = extension,
                                     !.index = index, !.total = total]
    /\ splitting = NoSplitting
    /\ runs = NoRuns
    /\ JobIdle

\* artifacts/chunking.py lines 67-71: the name of the chunk file.
NameChunk ==
    /\ naming.pc = "idle"
    /\ naming' = [naming EXCEPT
                     !.pc = "named",
                     !.name = ChunkName(naming.base_name, naming.index, naming.total,
                                        naming.extension)]
    /\ UNCHANGED <<splitVars, writeVars, genVars, fanVars, splitting, runs, jobVars>>

\* artifact_fanout.py lines 29-34, applied to the name of the file.
ParseName ==
    /\ naming.pc = "named"
    /\ naming' = [naming EXCEPT !.pc = "parsed", !.parsed = parse_chunk_indices(naming.name)]
    /\ UNCHANGED <<splitVars, writeVars, genVars, fanVars, splitting, runs, jobVars>>

NameNext == NameChunk \/ ParseName

SpecName == NameInit /\ [][NameNext]_vars

\* ------------------------------------------------------------- splitters
\* The inputs of the splitters.  For split_json the limit 0 stands for
\* max_items=None and max_bytes 0 for max_bytes=None; split_html takes the
\* node splitter only for max_nodes >= 1, and split_pdf is given max_pages >= 1.
HtmlNodes == {"<p>", "<hr>"}
JsonItems == {7, 42}
JsonData ==
    [kind : {"chunks", "list"}, value : SeqsUpTo(JsonItems, MaxPayload)]
        \cup [kind : {"other"}, value : JsonItems]

SplitterInputs ==
    [kind : {"bytes", "text"}, payload : SeqsUpTo(Utf8Chars, MaxPayload),
     limit : 0 .. MaxSplitLimit, max_bytes : {0}]
        \cup [kind : {"bytes", "text"}, payload : SeqsUpTo(LineChars, MaxLineLen),
              limit : 1 .. MaxLineLen - 1, max_bytes : {0}]
        \cup [kind : {"nodes"}, payload : SeqsUpTo(HtmlNodes, MaxPayload),
              limit : 1 .. MaxSplitLimit, max_bytes : {0}]
        \cup [kind : {"json"}, payload : JsonData,
              limit : 0 .. MaxSplitLimit, max_bytes : 0 .. MaxJsonBytes]
        \cup [kind : {"pdf"}, payload : {[i \in 1 .. n |-> i] : n \in 0 .. MaxPayload},
              limit : 1 .. MaxSplitLimit, max_bytes : {0}]

SplittersInit ==
    /\ SplitIdle
    /\ WriteIdle
    /\ GenIdle
    /\ FanIdle
    /\ naming = NoName
    /\ runs = NoRuns
    /\ JobIdle
    /\ \E input \in SplitterInputs :
          splitting = [NoSplitting EXCEPT !.kind = input.kind, !.payload = input.payload,
                                          !.limit = input.limit,
                                          !.max_bytes = input.max_bytes, !.pass = 1]

\* split_html, lines 61-66, taking the byte splitter.
SplitByBytes ==
    /\ splitting.pc = "idle"
    /\ splitting.kind = "bytes"
    /\ splitting' = [splitting EXCEPT
          !.pc = "split",
          !.chunks = split_by_bytes(splitting.payload, splitting.limit)]
    /\ UNCHANGED <<splitVars, writeVars, genVars, fanVars, naming, runs, jobVars>>

\* split_md and split_txt, lines 138 and 149.
SplitText ==
    /\ splitting.pc = "idle"
    /\ splitting.kind = "text"
    /\ splitting' = [splitting EXCEPT
          !.pc = "split",
          !.chunks = split_text(splitting.payload, splitting.limit)]
    /\ UNCHANGED <<splitVars, writeVars, genVars, fanVars, naming, runs, jobVars>>

\* split_html, lines 63-64, taking the node splitter.
SplitHtmlByNodes ==
    /\ splitting.pc = "idle"
    /\ splitting.kind = "nodes"
    /\ splitting' = [splitting EXCEPT
          !.pc = "split",
          !.chunks = split_html_by_nodes(splitting.payload, splitting.limit)]
    /\ UNCHANGED <<splitVars, writeVars, genVars, fanVars, naming, runs, jobVars>>

\* split_json, lines 179-200.
SplitJson ==
    /\ splitting.pc = "idle"
    /\ splitting.kind = "json"
    /\ splitting' = [splitting EXCEPT
          !.pc = "split",
          !.chunks = JsonChunksFrom(json_items(splitting.payload),
                        IF splitting.limit = 0 THEN Len(json_items(splitting.payload))
                        ELSE splitting.limit,
                        splitting.max_bytes, 0)]
    /\ UNCHANGED <<splitVars, writeVars, genVars, fanVars, naming, runs, jobVars>>

\* split_pdf, lines 216-226; a document without pages gives one empty chunk.
SplitPdf ==
    /\ splitting.pc = "idle"
    /\ splitting.kind = "pdf"
    /\ splitting' = [splitting EXCEPT
          !.pc = "split",
          !.chunks = IF splitting.payload = << >> THEN << << >> >>
                    ELSE PdfChunksFrom(splitting.payload, splitting.limit, 0)]
    /\ UNCHANGED <<splitVars, writeVars, genVars, fanVars, naming, runs, jobVars>>

\* json.dumps(chunk, ensure_ascii=False, indent=2) of a list of integers.
RECURSIVE JsonDumpItems(_)
JsonDumpItems(chunk) ==
    IF chunk = << >> THEN << >>
    ELSE Str(Head(chunk)) \o (IF Len(chunk) > 1 THEN <<",">> ELSE << >>)
             \o JsonDumpItems(Tail(chunk))

JsonDump(chunk) == <<"[">> \o JsonDumpItems(chunk) \o <<"]">>

\* The bytes a chunk is written as, per splitter.
ChunkBytes(kind, chunk) ==
    CASE kind \in {"bytes", "text"} -> utf8_encode(chunk)
      [] kind = "json" -> JsonDump(chunk)
      [] OTHER -> chunk

SplitterExtension(kind) ==
    CASE kind = "bytes" -> ".html"
      [] kind = "nodes" -> ".html"
      [] kind = "text" -> ".md"
      [] kind = "json" -> ".json"
      [] kind = "pdf" -> ".pdf"

\* _write_chunks, lines 28-48, called at the end of every split_* function.
WriteSplitChunks ==
    /\ splitting.pc = "split"
    /\ splitting' = [splitting EXCEPT
          !.pc = "written",
          !.files = splitters_write_chunks(
                        splitting.files, DefaultBase, SplitterExtension(splitting.kind),
                        [i \in 1 .. Len(splitting.chunks) |->
                            ChunkBytes(splitting.kind, splitting.chunks[i])],
                        splitting.pass)]
    /\ UNCHANGED <<splitVars, writeVars, genVars, fanVars, naming, runs, jobVars>>

\* The same split_* function is called again on the same path with another
\* limit; the directory is as the call before left it.
SplitterRerun ==
    /\ splitting.pc = "written"
    /\ splitting.pass < MaxSplitRuns
    /\ \E limit \in (1 .. MaxSplitLimit) \ {splitting.limit} :
          splitting' = [splitting EXCEPT !.pc = "idle", !.limit = limit,
                                         !.chunks = << >>, !.pass = @ + 1]
    /\ UNCHANGED <<splitVars, writeVars, genVars, fanVars, naming, runs, jobVars>>

SplittersNext ==
    \/ SplitterRerun
    \/ SplitByBytes
    \/ SplitText
    \/ SplitHtmlByNodes
    \/ SplitJson
    \/ SplitPdf
    \/ WriteSplitChunks

SpecSplitters == SplittersInit /\ [][SplittersNext]_vars

\* --------------------------------------------------------- concurrent runs
\* Two markdown generate() calls (artifacts/formats/markdown.py lines 18-79)
\* for documents of different base_name into the same directory, run by
\* two workers.  A step is one file-system call of one run; the steps of
\* the two runs interleave freely.
RunIds == {1, 2}
RunBase(r) == IF r = 1 THEN DefaultBase ELSE <<"rendered_pdf">>
RunTexts == {<<"a">>, <<"a", NL, "a">>}
RunHtml == <<"a">>

\* The directory before the runs: new, or holding what an earlier
\* generation of the first document left.
RunStarts ==
    {EmptyFS,
     StartLog(markdown_generate(EmptyFS, <<"a">>, OutDir, RunBase(1), Label, 1, "", RunHtml))}

RunsInit ==
    /\ SplitIdle
    /\ WriteIdle
    /\ FanIdle
    /\ naming = NoName
    /\ splitting = NoSplitting
    /\ JobIdle
    /\ fs \in RunStarts
    /\ before = [files |-> fs.files, owner |-> << >>]
    /\ last_pass = [html |-> NoPass, markdown |-> NoPass, text |-> NoPass]
    /\ owner = << >>
    /\ passes = 0
    /\ \E payloads \in [RunIds -> RunTexts], limits \in [RunIds -> 1 .. MaxGenLimit] :
          runs = [r \in RunIds |->
                     [payload |-> payloads[r], limit |-> limits[r], pc |-> "prepare",
                      patterns |-> MarkdownPatterns(RunBase(r)), pending |-> {},
                      target |-> << >>, k |-> 1]]

RunFrame == UNCHANGED <<splitVars, writeVars, last_pass, before, owner, passes, fanVars,
                        naming, splitting, jobVars>>

\* clear_existing_files has no target in hand and no name left to visit.
Cleared(run) == run.pending = {} /\ run.target = << >>

\* artifacts/cleanup.py lines 11-15, artifacts/chunking.py lines 14-15: the
\* directory is created before the first pattern; directory.glob(pattern)
\* lists the names that match the next pattern.
RunGlob(r) ==
    /\ runs[r].pc \in {"prepare", "clear_combined"}
    /\ Cleared(runs[r])
    /\ runs[r].patterns # << >>
    /\ fs' = IF runs[r].pc = "prepare" THEN StartLog(Mkdir(fs, OutDir)) ELSE fs
    /\ runs' = [runs EXCEPT ![r].pending = Glob(fs, OutDir, Head(runs[r].patterns)),
                            ![r].patterns = Tail(@)]
    /\ RunFrame

\* artifacts/chunking.py line 16: target.is_file() for the next name listed.
RunIsFile(r) ==
    /\ runs[r].pc \in {"prepare", "clear_combined"}
    /\ runs[r].target = << >>
    /\ \E name \in runs[r].pending :
          runs' = [runs EXCEPT ![r].pending = @ \ {name},
                               ![r].target = IF Exists(fs, <<OutDir, name>>) THEN name
                                             ELSE << >>]
    /\ UNCHANGED fs
    /\ RunFrame

\* artifacts/chunking.py line 17: target.unlink(), which raises
\* FileNotFoundError when the file is gone by now.
RunUnlink(r) ==
    /\ runs[r].pc \in {"prepare", "clear_combined"}
    /\ runs[r].target # << >>
    /\ IF Exists(fs, <<OutDir, runs[r].target>>)
       THEN /\ fs' = StartLog(Unlink(fs, <<OutDir, runs[r].target>>))
            /\ runs' = [runs EXCEPT ![r].target = << >>]
       ELSE /\ UNCHANGED fs
            /\ runs' = [runs EXCEPT ![r].target = << >>, ![r].pc = "raised"]
    /\ RunFrame

\* artifacts/formats/markdown.py lines 39-41
RunWriteAggregate(r) ==
    /\ runs[r].pc = "prepare"
    /\ Cleared(runs[r])
    /\ runs[r].patterns = << >>
    /\ fs' = StartLog(WriteText(fs, <<OutDir, AggregateName(RunBase(r), ".md")>>,
                                runs[r].payload))
    /\ runs' = [runs EXCEPT ![r].pc = "chunks", ![r].k = 1]
    /\ RunFrame

\* lines 43-64: write_chunks writes the next chunk file; after the last
\* one _write_combined_artifacts begins (line 96).
RunWriteChunk(r) ==
    /\ runs[r].pc = "chunks"
    /\ LET markdown_chunks == split_text_on_newlines(runs[r].payload, runs[r].limit)
           index == runs[r].k
       IN  /\ fs' = StartLog(WriteText(fs,
                                <<OutDir, ChunkName(RunBase(r), index, Len(markdown_chunks),
                                                    ".md")>>,
                                MarkdownChunkPayload("", index, Len(markdown_chunks), Label,
                                                     markdown_chunks[index])))
           /\ runs' = IF index < Len(markdown_chunks)
                      THEN [runs EXCEPT ![r].k = index + 1]
                      ELSE [runs EXCEPT ![r].pc = "clear_combined", ![r].k = 1,
                                        ![r].patterns =
                                            << <<"combined", "_part_", "*", ".md">> >>]
    /\ RunFrame

\* lines 95-146: the next combined file is written.
RunWriteCombined(r) ==
    /\ \/ runs[r].pc = "combined"
       \/ runs[r].pc = "clear_combined" /\ Cleared(runs[r]) /\ runs[r].patterns = << >>
    /\ LET half_limit == Max(1, runs[r].limit \div 2)
           combined_html_segments == split_text_on_newlines(RunHtml, half_limit)
           combined_markdown_segments ==
               split_text_on_newlines(runs[r].payload, half_limit)
           pairs == pair_segments(combined_html_segments, combined_markdown_segments)
           chunk_number == runs[r].k
       IN  /\ fs' = StartLog(WriteText(fs, <<OutDir, CombinedName(chunk_number)>>,
                                CombinedPayload("", chunk_number, Len(pairs),
                                                Len(combined_html_segments),
                                                Len(combined_markdown_segments), Label,
                                                pairs[chunk_number].html_part,
                                                pairs[chunk_number].md_part)))
           /\ runs' = IF chunk_number < Len(pairs)
                      THEN [runs EXCEPT ![r].pc = "combined", ![r].k = chunk_number + 1]
                      ELSE [runs EXCEPT ![r].pc = "done"]
    /\ RunFrame

RunsNext ==
    \E r \in RunIds :
        \/ RunGlob(r)
        \/ RunIsFile(r)
        \/ RunUnlink(r)
        \/ RunWriteAggregate(r)
        \/ RunWriteChunk(r)
        \/ RunWriteCombined(r)

SpecRuns == RunsInit /\ [][RunsNext]_vars

\* ------------------------------------------------------ conversion passes
\* DomainPaths.build, process_urls.py lines 262-276: the roll-up of a domain
\* has roots of its own beside the roots of the domain.
AggregateRenderedRoot == "rendered_base/domain_example.com"
AggregateMarkdownRoot == "markdown_base/domain_example.com"
\* How the callers of convert_html_to_md lay a document out: the rendered
\* file, the two output directories, the base name, the label and the URL.
\* process_urls.py lines 632-645 (a URL) and 546-557 (the domain roll-up),
\* process_pending_inputs.py lines 203-214 with 556 (a PDF).
ConvertLayouts ==
    { [rendered |-> <<RenderedRoot, <<"a", ".html">> >>,
       html_output_dir |-> ItemDir(RenderedRoot, "a"),
       markdown_output_dir |-> ItemDir(MarkdownRoot, "a"),
       base_filename |-> <<"a">>, label |-> "a",
       source_url |-> "https://example.com/a"],
      [rendered |-> <<AggregateRenderedRoot, <<"rendered_chat", ".html">> >>,
       html_output_dir |-> AggregateRenderedRoot,
       markdown_output_dir |-> AggregateMarkdownRoot,
       base_filename |-> <<"rendered_chat">>, label |-> "domain_example.com",
       source_url |-> "domain://example.com"],
      [rendered |-> <<"html", <<"rendered_pdf", ".html">> >>,
       html_output_dir |-> "html",
       markdown_output_dir |-> "markdown",
       base_filename |-> <<"rendered_pdf">>, label |-> "dataset",
       source_url |-> "pdf://a.pdf"] }

\* What a renderer leaves in the rendered file.
Renderings ==
    {<<"a">>, <<Tag, "a">>, <<"a", NL, "a">>, <<HtmlOpen, "a", HtmlClose>>,
     <<HtmlOpen, Tag, "a", NL, Tag, "a", HtmlClose>>}

ConvertInit ==
    /\ \E layout \in ConvertLayouts, rendering \in Renderings, limit \in 1 .. MaxGenLimit :
          /\ convert = [layout |-> layout, rendering |-> rendering,
                        chunk_char_limit |-> limit, passes |-> 0]
          /\ fs = [dirs |-> {layout.rendered[1]},
                   files |-> [path \in {layout.rendered} |-> OkFile(rendering)],
                   log |-> {}]
    /\ last_pass = [html |-> NoPass, markdown |-> NoPass, text |-> NoPass]
    /\ before = [files |-> << >>, owner |-> << >>]
    /\ owner = << >>
    /\ passes = 0
    /\ SplitIdle
    /\ WriteIdle
    /\ FanIdle
    /\ naming = NoName
    /\ splitting = NoSplitting
    /\ runs = NoRuns
    /\ fetch = NoFetch /\ urls = NoUrls /\ pdfs = NoPdfs

ConvertFrame ==
    UNCHANGED <<splitVars, writeVars, last_pass, before, owner, passes, fanVars,
                naming, splitting, runs, fetch, urls, pdfs>>

\* convert_rendered_html_to_md.py lines 38-63: one conversion pass over what
\* the rendered file holds now.
ConvertPass ==
    /\ convert.passes < MaxConvertPasses
    /\ fs' = generate_all(StartLog(fs), convert.layout.rendered,
                          convert.layout.markdown_output_dir,
                          convert.chunk_char_limit, convert.layout.label,
                          convert.layout.source_url, convert.layout.html_output_dir,
                          convert.layout.base_filename)
    /\ convert' = [convert EXCEPT !.passes = @ + 1]
    /\ ConvertFrame

\* A run with overwrite renders the document again into the rendered file
\* (process_urls.py lines 596-605, process_pending_inputs.py lines 183-184).
RenderAgain ==
    /\ convert.passes \in 1 .. MaxConvertPasses - 1
    /\ fs.files[convert.layout.rendered].data # convert.rendering
    /\ fs' = WriteText(StartLog(fs), convert.layout.rendered, convert.rendering)
    /\ UNCHANGED convert
    /\ ConvertFrame

ConvertNext ==
    \/ ConvertPass
    \/ RenderAgain

SpecConvert == ConvertInit /\ [][ConvertNext]_vars

\* ------------------------------------------------ process_urls, a domain
\* DomainPaths.slug_artifacts and html_artifact_dir, lines 290-308
RenderedHtml(slug) == <<RenderedRoot, <<slug, ".html">> >>
MetadataPath(slug) == <<RenderedRoot, <<slug, ".metadata", ".json">> >>
AggregateHtmlPath == <<AggregateRenderedRoot, <<"rendered_chat", ".html">> >>
UrlOf(slug) == "https://example.com/" \o slug

\* What the browser gives for a URL: the page, or no page.
Pages == [ok : {TRUE}, html : {<<"a">>, <<HtmlOpen, Tag, "a", HtmlClose>>}]
            \cup [ok : {FALSE}, html : {<< >>}]

UrlOptions ==
    [overwrite : BOOLEAN, skip_render : BOOLEAN, skip_convert : BOOLEAN,
     chunk_char_limit : MaxUrlLimit - 1 .. MaxUrlLimit]

\* lines 417-428.  The Markdown files predate the rendered file exactly when
\* the rendered file was written after them, in this call.
markdown_is_stale(f, markdown_dir, rendered_html, rendered_now) ==
    \/ ~Exists(f, rendered_html)
    \/ markdown_dir \notin f.dirs
    \/ Glob(f, markdown_dir, <<"*", ".md">>) = {}
    \/ rendered_now

\* lines 590-593
should_render(f, slug, o) ==
    ~o.skip_render /\ (o.overwrite \/ ~Exists(f, RenderedHtml(slug)))

\* lines 586-588 with 594-611: the directories of the slug, and the page
\* written when it was fetched.
after_render(f, slug, o, page) ==
    IF should_render(f, slug, o) /\ page.ok
    THEN WriteText(Mkdir(Mkdir(f, ItemDir(MarkdownRoot, slug)), ItemDir(RenderedRoot, slug)),
                   RenderedHtml(slug), page.html)
    ELSE Mkdir(Mkdir(f, ItemDir(MarkdownRoot, slug)), ItemDir(RenderedRoot, slug))

render_success(f, slug, o, page) ==
    IF should_render(f, slug, o) THEN page.ok ELSE Exists(f, RenderedHtml(slug))

\* lines 619-629
should_convert(f, slug, o, page) ==
    /\ render_success(f, slug, o, page)
    /\ ~o.skip_convert
    /\ \/ o.overwrite
       \/ markdown_is_stale(after_render(f, slug, o, page), ItemDir(MarkdownRoot, slug),
                            RenderedHtml(slug), should_render(f, slug, o) /\ page.ok)

\* lines 631-646
after_convert(f, slug, o, page) ==
    IF should_convert(f, slug, o, page)
    THEN generate_all(after_render(f, slug, o, page), RenderedHtml(slug),
                      ItemDir(MarkdownRoot, slug), o.chunk_char_limit, slug, UrlOf(slug),
                      ItemDir(RenderedRoot, slug), <<slug>>)
    ELSE after_render(f, slug, o, page)

\* UrlProcessingResult, lines 673-685, with what the metadata records
UrlResult(f, slug, o, page) ==
    [slug |-> slug,
     success |-> render_success(f, slug, o, page),
     rendered |-> should_render(f, slug, o) /\ page.ok,
     convert_performed |-> should_convert(f, slug, o, page)]

\* lines 578-685
process_single_url(f, slug, o, page) ==
    WriteText(after_convert(f, slug, o, page), MetadataPath(slug),
              <<"metadata", slug,
                IF render_success(f, slug, o, page) THEN "rendered" ELSE "failed",
                IF should_convert(f, slug, o, page) THEN "converted" ELSE "kept">>)

\* lines 449-455: the content between the body tags; HtmlOpen and HtmlClose
\* stand for the tags around the body.
extract_body(html) == Without(html, {HtmlOpen, HtmlClose})

\* lines 464-493
RECURSIVE Articles(_, _)
Articles(f, results) ==
    IF results = << >> THEN << >>
    ELSE (IF Exists(f, RenderedHtml(Head(results).slug))
          THEN <<"<article " \o Head(results).slug \o ">", NL>>
                  \o extract_body(f.files[RenderedHtml(Head(results).slug)].data)
                  \o <<NL, "</article>", NL>>
          ELSE << >>)
         \o Articles(f, Tail(results))

compose_aggregate_html(f, results) ==
    <<HtmlOpen, NL>> \o Articles(f, results) \o <<HtmlClose>>

Successful(f, processed) ==
    SelectSeq(processed, LAMBDA r : r.success /\ Exists(f, RenderedHtml(r.slug)))

\* lines 431-446: a rendered file is newer than the roll-up when it was
\* written in this run.
should_regenerate(f, processed, overwrite) ==
    \/ overwrite
    \/ ~Exists(f, AggregateHtmlPath)
    \/ \E k \in 1 .. Len(processed) : processed[k].success /\ processed[k].rendered

\* lines 522-533
composes(f, processed, o) ==
    \/ should_regenerate(f, processed, o.overwrite) /\ ~o.skip_render
    \/ ~Exists(f, AggregateHtmlPath)

after_compose(f, processed, o) ==
    IF composes(f, processed, o)
    THEN WriteText(Mkdir(Mkdir(f, AggregateRenderedRoot), AggregateMarkdownRoot),
                   AggregateHtmlPath, compose_aggregate_html(f, Successful(f, processed)))
    ELSE Mkdir(Mkdir(f, AggregateRenderedRoot), AggregateMarkdownRoot)

\* lines 496-565
generate_domain_aggregate(f, processed, o) ==
    IF Successful(f, processed) = << >> THEN f
    ELSE IF o.skip_convert THEN after_compose(f, processed, o)
    ELSE IF \/ o.overwrite
            \/ markdown_is_stale(after_compose(f, processed, o), AggregateMarkdownRoot,
                                 AggregateHtmlPath, composes(f, processed, o))
         THEN generate_all(after_compose(f, processed, o), AggregateHtmlPath,
                           AggregateMarkdownRoot, o.chunk_char_limit,
                           "domain_example.com", "domain://example.com",
                           AggregateRenderedRoot, <<"rendered_chat">>)
         ELSE after_compose(f, processed, o)

\* The output tree before the first run: empty, or holding what an earlier
\* release left for the item "c", an aggregate.html and an aggregate.md.
UrlTrees ==
    { [dirs |-> {}, files |-> << >>, log |-> {}],
      [dirs |-> {RenderedRoot, MarkdownRoot, ItemDir(RenderedRoot, "c"),
                 ItemDir(MarkdownRoot, "c")},
       files |-> [path \in {<<ItemDir(RenderedRoot, "c"), LegacyHtml>>,
                            <<ItemDir(MarkdownRoot, "c"), LegacyMarkdown>>} |->
                     OkFile(<<"a">>)],
       log |-> {}] }

UrlsInit ==
    /\ fs \in UrlTrees
    /\ urls = [pc |-> "idle", runs |-> 0]
    /\ last_pass = [html |-> NoPass, markdown |-> NoPass, text |-> NoPass]
    /\ before = [files |-> << >>, owner |-> << >>]
    /\ owner = << >>
    /\ passes = 0
    /\ SplitIdle
    /\ WriteIdle
    /\ FanIdle
    /\ naming = NoName
    /\ splitting = NoSplitting
    /\ runs = NoRuns
    /\ fetch = NoFetch /\ convert = NoConvert /\ pdfs = NoPdfs

UrlsFrame ==
    UNCHANGED <<splitVars, writeVars, last_pass, before, owner, passes, fanVars,
                naming, splitting, runs, fetch, convert, pdfs>>

\* lines 813-827: the roots of the domain, and the URLs of the domain.
ProcessUrlsStart ==
    /\ urls.pc = "idle"
    /\ urls.runs < MaxUrlRuns
    /\ \E o \in UrlOptions, domain_urls \in {<<"a">>, <<"a", "b">>} :
          urls' = [pc |-> "urls", runs |-> urls.runs, options |-> o,
                   todo |-> domain_urls, processed |-> << >>]
    /\ fs' = Mkdir(Mkdir(StartLog(fs), RenderedRoot), MarkdownRoot)
    /\ UrlsFrame

\* lines 829-837: the next URL of the domain.
ProcessSingleUrl ==
    /\ urls.pc = "urls"
    /\ urls.todo # << >>
    /\ \E page \in Pages :
          /\ fs' = process_single_url(fs, Head(urls.todo), urls.options, page)
          /\ urls' = [urls EXCEPT
                        !.todo = Tail(@),
                        !.processed = Append(@, UrlResult(fs, Head(urls.todo),
                                                          urls.options, page))]
    /\ UrlsFrame

\* lines 839-843
GenerateDomainAggregate ==
    /\ urls.pc = "urls"
    /\ urls.todo = << >>
    /\ fs' = generate_domain_aggregate(fs, urls.processed, urls.options)
    /\ urls' = [urls EXCEPT !.pc = "domain"]
    /\ UrlsFrame

\* lines 845-850, and the end of the domain, lines 852-867.
DomainAggregatorCall ==
    /\ urls.pc = "domain"
    /\ fs' = write_domain_aggregates(fs, DomainLabel, RenderedRoot, MarkdownRoot,
                                     urls.options.chunk_char_limit)
    /\ urls' = [urls EXCEPT !.pc = "idle", !.runs = @ + 1]
    /\ UrlsFrame

UrlsNext ==
    \/ ProcessUrlsStart
    \/ ProcessSingleUrl
    \/ GenerateDomainAggregate
    \/ DomainAggregatorCall

SpecUrls == UrlsInit /\ [][UrlsNext]_vars

\* ------------------------------------------- process_pdf_dataset, a dataset
\* process_pending_inputs.py lines 552-556: one rendered file and one base
\* name for every PDF of the dataset.
PdfBase == <<"rendered_pdf">>
PdfRendered == <<HtmlDir, AggregateName(PdfBase, ".html")>>
PdfMarkdown == <<MarkdownDir, AggregateName(PdfBase, ".md")>>
PdfMetadata == <<"dataset", <<"metadata", ".json">> >>

\* pdf_renderer.py lines 26-55: the HTML of a PDF, each PDF with a text of
\* its own, or no HTML (a syntax error, an empty output).
PdfNames == {"a", "b"}
PdfHtml(pdf) == <<Tag, pdf>>
PdfPage(pdf, ok) == [ok |-> ok, html |-> IF ok THEN PdfHtml(pdf) ELSE << >>]

\* lines 166-187
pdf_skips_render(f, overwrite) == ~overwrite /\ Exists(f, PdfRendered)

pdf_after_render(f, overwrite, page) ==
    IF ~pdf_skips_render(f, overwrite) /\ page.ok
    THEN WriteText(Mkdir(f, HtmlDir), PdfRendered, page.html)
    ELSE f

pdf_render_success(f, overwrite, page) == pdf_skips_render(f, overwrite) \/ page.ok

\* lines 190-233, the rendered file in place
pdf_converts(f, overwrite, rendered_ok, rendered_now) ==
    /\ rendered_ok
    /\ overwrite \/ markdown_is_stale(f, MarkdownDir, PdfRendered, rendered_now)

PdfUrl(pdf) == "pdf://" \o pdf \o ".pdf"

\* lines 118-140: the payloads of the conversion, or what the files hold.
NoPayload == [some |-> FALSE, data |-> << >>]
Payload(data) == [some |-> TRUE, data |-> data]

pdf_aggregate_html(f, pdf, converts) ==
    IF converts
    THEN Payload(annotated_html(soup_str(f.files[PdfRendered].data), PdfUrl(pdf)))
    ELSE IF Exists(f, PdfRendered) THEN Payload(f.files[PdfRendered].data)
    ELSE NoPayload

pdf_aggregate_markdown(f, pdf, converts) ==
    IF converts
    THEN Payload(annotated_markdown(md(soup_str(f.files[PdfRendered].data)), PdfUrl(pdf)))
    ELSE IF Exists(f, PdfMarkdown) THEN Payload(f.files[PdfMarkdown].data)
    ELSE NoPayload

\* artifact_fanout.py lines 331-343 and 345-364, under the base name given
fan_out_text(f, html, limit, overwrite, base_name) ==
    IF stage_runs(overwrite, Exists(f, <<TextDir, AggregateName(base_name, ".text")>>))
    THEN generate_text_artifacts(f, html, TextDir, limit, base_name)
    ELSE f

fan_out_json(f, dataset_name, html, markdown, limit, overwrite, source_url, base_name) ==
    IF stage_runs(overwrite, Exists(f, <<JsonDir, AggregateName(base_name, ".json")>>))
    THEN generate_json_artifacts(f, dataset_name, html, markdown, TextDir, HtmlDir,
                                 MarkdownDir, JsonDir, limit, source_url, base_name)
    ELSE [fs |-> f, raised |-> FALSE]

\* The locals of the loop body, per PDF.
NoLocals == [render_success |-> FALSE, rendered |-> FALSE, convert_success |-> FALSE,
             aggregate_html |-> NoPayload, aggregate_markdown |-> NoPayload]

PdfsInit ==
    /\ fs = [dirs |-> {}, files |-> << >>, log |-> {}]
    /\ pdfs = [pc |-> "idle", runs |-> 0, done |-> << >>, cur |-> NoLocals]
    /\ last_pass = [html |-> NoPass, markdown |-> NoPass, text |-> NoPass]
    /\ before = [files |-> << >>, owner |-> << >>]
    /\ owner = << >>
    /\ passes = 0
    /\ SplitIdle
    /\ WriteIdle
    /\ FanIdle
    /\ naming = NoName
    /\ splitting = NoSplitting
    /\ runs = NoRuns
    /\ fetch = NoFetch /\ convert = NoConvert /\ urls = NoUrls

PdfsFrame ==
    UNCHANGED <<splitVars, writeVars, last_pass, before, owner, passes, fanVars,
                naming, splitting, runs, fetch, convert, urls>>

\* lines 535-553: the PDFs of the dataset, sorted, and the output directories.
ProcessPdfDataset ==
    /\ pdfs.pc = "idle"
    /\ pdfs.runs < MaxPdfRuns
    /\ \E overwrite \in BOOLEAN, limit \in MaxPdfLimit - 1 .. MaxPdfLimit,
          pdf_files \in {<< >>, <<"a">>, <<"b">>, <<"a", "b">>} :
          /\ pdfs' = [pc |-> IF pdf_files = << >> THEN "idle" ELSE "render",
                      runs |-> IF pdf_files = << >> THEN pdfs.runs + 1 ELSE pdfs.runs,
                      overwrite |-> overwrite, chunk_char_limit |-> limit,
                      todo |-> pdf_files, done |-> << >>, cur |-> NoLocals]
          /\ fs' = IF pdf_files = << >> THEN StartLog(fs)
                   ELSE Mkdir(make_directories(StartLog(fs)), "dataset")
    /\ PdfsFrame

\* lines 555-556 and 251-255: the next PDF of the loop is rendered into the
\* rendered file of the dataset, unless that file is there and kept.
PdfRender ==
    /\ pdfs.pc = "render"
    /\ pdfs.todo # << >>
    /\ \E ok \in BOOLEAN :
          /\ fs' = pdf_after_render(fs, pdfs.overwrite, PdfPage(Head(pdfs.todo), ok))
          /\ pdfs' = [pdfs EXCEPT
                        !.pc = "convert",
                        !.cur = [NoLocals EXCEPT
                                   !.render_success =
                                       pdf_render_success(fs, pdfs.overwrite,
                                                          PdfPage(Head(pdfs.todo), ok)),
                                   !.rendered = ~pdf_skips_render(fs, pdfs.overwrite) /\ ok]]
    /\ PdfsFrame

\* lines 257-267: the conversion when forced or stale, and the payloads.
PdfConvert ==
    /\ pdfs.pc = "convert"
    /\ LET converts == pdf_converts(fs, pdfs.overwrite, pdfs.cur.render_success,
                                    pdfs.cur.rendered)
       IN  /\ fs' = IF converts
                    THEN generate_all(fs, PdfRendered, MarkdownDir, pdfs.chunk_char_limit,
                                      "dataset", PdfUrl(Head(pdfs.todo)), HtmlDir, PdfBase)
                    ELSE fs
           /\ pdfs' = [pdfs EXCEPT
                         !.pc = "fanout",
                         !.cur.convert_success = converts,
                         !.cur.aggregate_html =
                             pdf_aggregate_html(fs, Head(pdfs.todo), converts),
                         !.cur.aggregate_markdown =
                             pdf_aggregate_markdown(fs, Head(pdfs.todo), converts)]
    /\ PdfsFrame

PdfDone ==
    [pdf |-> Head(pdfs.todo), render_success |-> pdfs.cur.render_success,
     rendered |-> pdfs.cur.rendered, convert_success |-> pdfs.cur.convert_success,
     fanned_out |-> pdfs.cur.aggregate_html.some /\ pdfs.cur.aggregate_markdown.some,
     aggregate_html |-> pdfs.cur.aggregate_html.data]

\* lines 572-598 with artifact_fanout.py lines 308-329: the fan-out is
\* called when both payloads are there, and makes its directories.
PdfFanOut ==
    /\ pdfs.pc = "fanout"
    /\ IF pdfs.cur.aggregate_html.some /\ pdfs.cur.aggregate_markdown.some
       THEN /\ fs' = make_directories(fs)
            /\ pdfs' = [pdfs EXCEPT !.pc = "text"]
       ELSE /\ fs' = fs
            /\ pdfs' = [pdfs EXCEPT !.pc = "metadata"]
    /\ PdfsFrame

\* artifact_fanout.py lines 331-343
PdfTextStage ==
    /\ pdfs.pc = "text"
    /\ fs' = fan_out_text(fs, pdfs.cur.aggregate_html.data, pdfs.chunk_char_limit,
                          pdfs.overwrite, PdfBase)
    /\ pdfs' = [pdfs EXCEPT !.pc = "json"]
    /\ PdfsFrame

\* artifact_fanout.py lines 345-364; an exception of the JSON generator
\* ends the run over the dataset.
PdfJsonStage ==
    /\ pdfs.pc = "json"
    /\ LET out == fan_out_json(fs, "dataset", pdfs.cur.aggregate_html.data,
                               pdfs.cur.aggregate_markdown.data, pdfs.chunk_char_limit,
                               pdfs.overwrite, PdfUrl(Head(pdfs.todo)), PdfBase)
       IN  /\ fs' = out.fs
           /\ pdfs' = [pdfs EXCEPT !.pc = IF out.raised THEN "raised" ELSE "pdf"]
    /\ PdfsFrame

\* artifact_fanout.py lines 366-378
PdfPdfStage ==
    /\ pdfs.pc = "pdf"
    /\ IF stage_runs(pdfs.overwrite, Exists(fs, <<PdfDir, AggregateName(PdfBase, ".pdf")>>))
       THEN \E ok \in BOOLEAN :
                fs' = generate_pdf_artifacts(fs, HtmlDir, PdfDir, PdfBase,
                          [n \in PdfSources(fs, HtmlDir, PdfBase) |-> ok])
       ELSE fs' = fs
    /\ pdfs' = [pdfs EXCEPT !.pc = "metadata"]
    /\ PdfsFrame

\* lines 600-619: the metadata of the PDF, and the loop goes on.
PdfWriteMetadata ==
    /\ pdfs.pc = "metadata"
    /\ fs' = WriteText(fs, PdfMetadata, <<"metadata", Head(pdfs.todo)>>)
    /\ pdfs' = [pdfs EXCEPT !.pc = "render", !.todo = Tail(@),
                            !.done = Append(@, PdfDone), !.cur = NoLocals]
    /\ PdfsFrame

\* line 621
ProcessPdfDatasetReturn ==
    /\ pdfs.pc = "render"
    /\ pdfs.todo = << >>
    /\ pdfs' = [pdfs EXCEPT !.pc = "idle", !.runs = @ + 1]
    /\ fs' = StartLog(fs)
    /\ PdfsFrame

PdfsNext ==
    \/ ProcessPdfDataset
    \/ PdfRender
    \/ PdfConvert
    \/ PdfFanOut
    \/ PdfTextStage
    \/ PdfJsonStage
    \/ PdfPdfStage
    \/ PdfWriteMetadata
    \/ ProcessPdfDatasetReturn

SpecPdfs == PdfsInit /\ [][PdfsNext]_vars

\* ------------------------------------------------------------------ claims
UnbrokenLine(c) == \A i \in 1 .. (Len(c) - 1) : c[i] # NL

\* C1: for every non-empty text T and every limit L >= 1, the chunks returned
\* by split_text_on_newlines(T, L), concatenated in order, are T exactly; while
\* the loop runs the chunks so far are exactly the text before the cursor.
C1_ConcatReproducesText ==
    /\ (split_pc = "loop" /\ text # << >>) => Concat(chunks) = Slice(text, 0, cursor)
    /\ (split_pc = "done" /\ text # << >>) => Concat(chunks) = text

\* A returned split in which a window ended at a newline before the limit.
C1_Witness ==
    /\ split_pc = "done"
    /\ Len(chunks) >= 2
    /\ Len(chunks[1]) < max_chars
    /\ chunks[1][Len(chunks[1])] = NL

\* C2: for every non-empty text T and every limit L >= 1 the split returns at
\* least one chunk, and every chunk is at most L long unless it holds a single
\* unbroken line longer than L.
C2_ChunkCountAndSize ==
    (split_pc = "done" /\ text # << >>) =>
        /\ Len(chunks) >= 1
        /\ \A i \in 1 .. Len(chunks) :
              \/ Len(chunks[i]) <= max_chars
              \/ (UnbrokenLine(chunks[i]) /\ Len(chunks[i]) > max_chars)

\* A returned split whose text has a line longer than the limit.
C2_Witness ==
    /\ split_pc = "done"
    /\ Len(text) > max_chars
    /\ \E i \in 1 .. Len(chunks) : Len(chunks[i]) = max_chars /\ UnbrokenLine(chunks[i])
    /\ \E i \in 1 .. (Len(text) - max_chars) :
          \A j \in i .. (i + max_chars) : text[j] # NL

\* C3: write_if_changed rewrites the file only when it is missing or holds
\* other bytes and returns true exactly then; a repeated call with the same
\* bytes returns false and leaves the file and its modification time alone;
\* after any call the file holds the bytes given.
C3_WriteIfChanged ==
    last_write.called =>
        LET differs == ~last_write.before.exists
                          \/ last_write.before.data # last_write.data
        IN  /\ last_write.ret = differs
            /\ ~last_write.ret => target = last_write.before
            /\ last_write.ret => target.mtime = clock - 1
            /\ last_write.repeat => (~last_write.ret /\ target.mtime < clock - 1)
            /\ target.exists /\ target.data = last_write.data

\* A second call with the bytes of the first, made at a later time.
C3_Witness ==
    /\ last_write.called
    /\ last_write.repeat
    /\ last_write.data # << >>
    /\ target.mtime < clock - 1
\* The chunk files of base_name with the extension, as the generators'
\* callers look them up (artifact_fanout.py lines 124 and 131).
ChunkFiles(f, d, base_name, extension) ==
    Glob(f, d, base_name \o <<"_part_", "*", "_of_", "*", extension>>)

PartsOfLastPass(pass, extension, fmt) ==
    /\ pass.total >= 1
    /\ ChunkFiles(fs, OutDir, pass.base_name, extension)
          = {ChunkName(pass.base_name, i, pass.total, extension) : i \in 1 .. pass.total}
    /\ \A i \in 1 .. pass.total :
          LET file == fs.files[<<OutDir, ChunkName(pass.base_name, i, pass.total, extension)>>]
              part == split_text_on_newlines(pass.payload, pass.limit)[i]
          IN  /\ file.st = "ok"
              /\ file.data.index = i
              /\ file.data.total = pass.total
              /\ file.data.body = IF fmt = "HTML" THEN rstrip(part) ELSE strip(part)

LastBase ==
    CHOOSE b \in Bases \cup {<< >>} :
        \/ b = << >> /\ passes = 0
        \/ /\ passes > 0
           /\ \/ <<"write", <<OutDir, AggregateName(b, ".html")>> >> \in fs.log
              \/ <<"write", <<OutDir, AggregateName(b, ".md")>> >> \in fs.log

\* C9: a generation pass for base_name B deletes only artifact files of B;
\* every file of the directory that belongs to a document with another
\* base_name is left as it was: still there, with its content, neither
\* deleted nor rewritten.
C9_OtherDocumentsUntouched ==
    passes > 0 =>
        \A q \in DOMAIN before.files :
            before.owner[q] # LastBase =>
                /\ q \in DOMAIN fs.files
                /\ fs.files[q] = before.files[q]
                /\ <<"unlink", q>> \notin fs.log
                /\ <<"write", q>> \notin fs.log

\* The number of parts the cycle's aggregate splits into at its chunk limit.
PartsOf(payload) == Len(split_text_on_newlines(payload, doc.limit))

StageAggregate(stage) ==
    CASE stage = "NeedsText" -> TextAggregate
      [] stage = "NeedsJson" -> JsonAggregate
      [] stage = "NeedsPdf" -> PdfAggregate

Stages == {"NeedsText", "NeedsJson", "NeedsPdf"}

SameOnDisk(f, g) == f.files = g.files /\ f.dirs = g.dirs

\* C5: with overwrite=false a stage whose aggregate already exists is skipped
\* entirely, deleting and writing no file; so a call with overwrite=false on
\* a document whose three aggregates are present changes nothing on disk.
C5_PresentStagesSkipped ==
    [][/\ (pc \in Stages /\ ~call.overwrite /\ Exists(fs, StageAggregate(pc)))
              => SameOnDisk(fs', fs)
       /\ ( /\ pc' = "Done"
            /\ ~call'.overwrite
            /\ \A stage \in Stages : Exists(fs0', StageAggregate(stage)) )
              => SameOnDisk(fs', fs0')]_vars

\* A second call, with overwrite=false, has skipped its three stages.
C5_Witness ==
    /\ pc = "Done"
    /\ calls = 2
    /\ ~call.overwrite
    /\ call.text = "skip" /\ call.json = "skip" /\ call.pdf = "skip"
    /\ \A stage \in Stages : Exists(fs0, StageAggregate(stage))

\* C6: when the aggregate HTML or Markdown cannot be resolved,
\* fan_out_artifacts aborts without running a stage and leaves the file
\* system as it was before the call: no file and no directory is created,
\* changed or deleted.
C6_AbortLeavesDiskAlone ==
    pc = "Aborted" =>
        /\ call.text = "none" /\ call.json = "none" /\ call.pdf = "none"
        /\ SameOnDisk(fs, fs0)

\* C7: in a call that passed the precondition the stages are decided in the
\* order text, JSON, PDF; each decision depends on overwrite and the stage's
\* own aggregate only; and the call goes on from each stage to the next and
\* to Done.
C7_StagesInOrderToDone ==
    [][/\ pc = "NeedsText" =>
              /\ pc' = "NeedsJson"
              /\ call.json = "none" /\ call.pdf = "none"
              /\ call'.text = IF call.overwrite \/ ~Exists(fs, TextAggregate)
                              THEN "run" ELSE "skip"
       /\ pc = "NeedsJson" =>
              /\ pc' = "NeedsPdf"
              /\ call.text # "none" /\ call.pdf = "none"
              /\ call'.json = IF call.overwrite \/ ~Exists(fs, JsonAggregate)
                              THEN "run" ELSE "skip"
       /\ pc = "NeedsPdf" =>
              /\ pc' = "Done"
              /\ call.text # "none" /\ call.json # "none"
              /\ call'.pdf = IF call.overwrite \/ ~Exists(fs, PdfAggregate)
                             THEN "run" ELSE "skip"]_vars

\* The PDF a page is rendered to.
PdfOf(name) ==
    IF name = AggregateName(DefaultBase, ".html") THEN PdfAggregate
    ELSE <<PdfDir, ChunkName(DefaultBase, parse_chunk_indices(name)[1],
                             parse_chunk_indices(name)[2], ".pdf")>>

\* C10: when the PDF stage is re-run and the rendering of the aggregate or of
\* a chunk fails, the PDF generated earlier for that page is still on disk
\* with its previous content after the stage: every PDF of a page of the
\* pass is afterwards either the one just rendered or the one from before.
C10_FailedRenderKeepsPdf ==
    [][(pc = "NeedsPdf" /\ call'.pdf = "run") =>
          \A name \in PdfSources(fs, HtmlDir, DefaultBase) :
              Exists(fs, PdfOf(name)) =>
                  /\ Exists(fs', PdfOf(name))
                  /\ \/ <<"write", PdfOf(name)>> \in fs'.log
                     \/ fs'.files[PdfOf(name)] = fs.files[PdfOf(name)]]_vars

\* Whether the chunk file of a part is on disk and readable as text.
Readable(d, extension, i, N) ==
    /\ Exists(fs, <<d, ChunkName(DefaultBase, i, N, extension)>>)
    /\ fs.files[<<d, ChunkName(DefaultBase, i, N, extension)>>].st = "ok"

\* C11: in generate_json_artifacts, when the HTML or Markdown chunk file of a
\* part is missing or cannot be read (undecodable content included), the
\* JSON record of the part uses the content regenerated from the aggregate,
\* the generator does not raise, and the N JSON chunk files and the
\* aggregate JSON are written with the same N.
C11_JsonFallsBackOnAnyReadFailure ==
    call.json = "run" =>
        LET N == IF PartsOf(call.html) = 0 THEN 1 ELSE PartsOf(call.html)
            regenerated_html == fallback_html_chunks(call.html, doc.limit, "", Label, N)
            regenerated_markdown ==
                fallback_markdown_chunks(call.markdown, doc.limit, "", Label, N)
        IN  /\ pc # "Raised"
            /\ Exists(fs, JsonAggregate)
            /\ Len(fs.files[JsonAggregate].data.chunks) = N
            /\ \A i \in 1 .. N :
                  /\ Exists(fs, <<JsonDir, ChunkName(DefaultBase, i, N, ".json")>>)
                  /\ ~Readable(HtmlDir, ".html", i, N) =>
                        fs.files[JsonAggregate].data.chunks[i].html
                            = GetOrEmpty(regenerated_html, i)
                  /\ ~Readable(MarkdownDir, ".md", i, N) =>
                        fs.files[JsonAggregate].data.chunks[i].markdown
                            = GetOrEmpty(regenerated_markdown, i)

RepeatedPass(fmt, extension, b) ==
    /\ passes' = passes + 1
    /\ <<"write", <<OutDir, AggregateName(b, extension)>> >> \in fs'.log
    /\ last_pass[fmt].base_name = b
    /\ last_pass'[fmt].payload = last_pass[fmt].payload
    /\ last_pass'[fmt].limit = last_pass[fmt].limit

\* C13: the Format Generators write each chunk through the Idempotent
\* Writer: when the HTML or Markdown generator regenerates a document whose
\* payload, label, source URL and limit are unchanged, no chunk file is
\* deleted or rewritten.
C13_UnchangedChunksKept ==
    [][\A b \in Bases :
          /\ RepeatedPass("html", ".html", b) =>
                \A name \in ChunkFiles(fs, OutDir, b, ".html") :
                    /\ <<"unlink", <<OutDir, name>> >> \notin fs'.log
                    /\ <<"write", <<OutDir, name>> >> \notin fs'.log
          /\ RepeatedPass("markdown", ".md", b) =>
                \A name \in ChunkFiles(fs, OutDir, b, ".md") :
                    /\ <<"unlink", <<OutDir, name>> >> \notin fs'.log
                    /\ <<"write", <<OutDir, name>> >> \notin fs'.log]_vars

\* C14: chunk filenames round-trip: for every base_name, extension and
\* (i, n) with 1 <= i <= n, parse_chunk_indices applied to the filename
\* {base_name}_part_{i}_of_{n}{extension} returns exactly (i, n).
C14_ChunkNameRoundTrip ==
    naming.pc = "parsed" => naming.parsed = <<naming.index, naming.total>>

\* The list a splitter is given to cut.
SplitterInput ==
    IF splitting.kind = "json" THEN json_items(splitting.payload) ELSE splitting.payload

\* C15: every splitter yields exactly one chunk with empty content for an
\* empty input, for every limit: split_text_on_newlines on "", the byte,
\* character, node and JSON-item splitters on an empty payload or item
\* list, split_pdf on a document without pages; zero chunks are never
\* produced, so no file named ..._of_0 is ever written.
C15_EmptyInputOneEmptyChunk ==
    /\ \A limit \in 0 .. MaxSplitLimit : split_text_on_newlines(<< >>, limit) = << << >> >>
    /\ (splitting.pc # "idle" /\ splitting.kind # "json" /\ SplitterInput = << >>)
          => splitting.chunks = << << >> >>
    /\ splitting.pc = "written" =>
          /\ \A name \in DOMAIN splitting.files : parse_chunk_indices(name)[2] >= 1
          /\ SplitterInput = << >> =>
                /\ DOMAIN splitting.files
                      = {ChunkName(DefaultBase, 1, 1, SplitterExtension(splitting.kind))}
                /\ \A name \in DOMAIN splitting.files : splitting.files[name].data = << >>

\* split_json has written the one empty chunk of an empty item list.
C15_Witness ==
    /\ splitting.pc = "written"
    /\ splitting.kind = "json"
    /\ SplitterInput = << >>
    /\ splitting.chunks = << >>
    /\ DOMAIN splitting.files = {ChunkName(DefaultBase, 1, 1, ".json")}

\* C19: split_json partitions the input items: for every item list, every
\* max_items >= 1 and every optional max_bytes, each item appears in
\* exactly one chunk, in the original order, and no chunk is empty when the
\* input is not; halving a group that exceeds the byte ceiling drops and
\* duplicates nothing.
C19_SplitJsonPartitions ==
    (splitting.pc # "idle" /\ splitting.kind = "json") =>
        /\ Concat(splitting.chunks) = SplitterInput
        /\ SplitterInput # << >> =>
              \A k \in 1 .. Len(splitting.chunks) : splitting.chunks[k] # << >>

\* Whether small is big with some items left out.
RECURSIVE IsSubsequence(_, _)
IsSubsequence(small, big) ==
    IF small = << >> THEN TRUE
    ELSE IF big = << >> THEN FALSE
         ELSE IF Head(small) = Head(big) THEN IsSubsequence(Tail(small), Tail(big))
              ELSE IsSubsequence(small, Tail(big))

\* The limit is too small for a code point of the payload, so that some
\* window cannot be decoded whatever its end.
LossyFallbackNeeded ==
    /\ Len(utf8_encode(splitting.payload)) > splitting.limit
    /\ \E i \in 1 .. Len(splitting.payload) :
          Len(EncodeChar(splitting.payload[i])) > splitting.limit

\* C20: for every payload and every limit >= 1, _split_by_bytes never cuts
\* inside a multi-byte character: every chunk consists of whole characters
\* of the payload in their original order, the chunks concatenated equal
\* the payload when no lossy fallback was needed, and in the lossy fallback
\* the undecodable bytes are dropped instead of appearing as characters
\* that were not in the payload.
C20_SplitByBytesKeepsCharacters ==
    (splitting.pc # "idle" /\ splitting.kind = "bytes" /\ splitting.limit >= 1) =>
        /\ IsSubsequence(Concat(splitting.chunks), splitting.payload)
        /\ ~LossyFallbackNeeded => Concat(splitting.chunks) = splitting.payload

\* The contents of the text part files 1..N, in index order.
RECURSIVE TextParts(_, _)
TextParts(N, i) ==
    IF i > N THEN << >>
    ELSE <<fs.files[<<OutDir, ChunkName(DefaultBase, i, N, ".txt")>>].data>>
             \o TextParts(N, i + 1)

\* C16: generate_text_artifacts writes {base}.text holding the plain-text
\* extraction of the aggregate HTML, and part files {base}_part_i_of_N.txt
\* for i = 1..N whose contents concatenated in index order equal that plain
\* text; N >= 2 whenever the plain text is longer than the chunk limit.
C16_TextPartsRebuildPlainText ==
    last_pass.text.base_name = DefaultBase =>
        LET plain_text == extract_plain_text(last_pass.text.payload)
            names == Glob(fs, OutDir, DefaultBase \o <<"_part_", "*", ".txt">>)
            N == Cardinality(names)
        IN  /\ Exists(fs, <<OutDir, AggregateName(DefaultBase, ".text")>>)
            /\ fs.files[<<OutDir, AggregateName(DefaultBase, ".text")>>].data = plain_text
            /\ N >= 1
            /\ names = {ChunkName(DefaultBase, i, N, ".txt") : i \in 1 .. N}
            /\ Concat(TextParts(N, 1)) = plain_text
            /\ Len(plain_text) > last_pass.text.limit => N >= 2

\* A pass over an aggregate with markup whose plain text is longer than the
\* limit.
C16_Witness ==
    /\ last_pass.text.base_name = DefaultBase
    /\ \E i \in 1 .. Len(last_pass.text.payload) : last_pass.text.payload[i] = Tag
    /\ Len(extract_plain_text(last_pass.text.payload)) > last_pass.text.limit
    /\ Exists(fs, <<OutDir, ChunkName(DefaultBase, 2, 2, ".txt")>>)

\* The items of a root that hold the aggregate, in sorted name order.
ItemsWith(root, legacy) ==
    SelectSeq(<<"a", "b", "c">>, LAMBDA s : Exists(fs, <<ItemDir(root, s), legacy>>))

WrappedHtml(s) ==
    <<"<!-- Start: " \o s \o " -->", NL>>
        \o strip(fs.files[<<ItemDir(RenderedRoot, s), LegacyHtml>>].data)
        \o <<NL, "<!-- End: " \o s \o " -->">>

HeadedMarkdown(s) ==
    <<"# Source · " \o s, NL, NL>>
        \o strip(fs.files[<<ItemDir(MarkdownRoot, s), LegacyMarkdown>>].data)

DomainHtmlPath == <<ItemDir(RenderedRoot, "_domain"), AggregateName(DomainLabel, ".html")>>
DomainMarkdownPath == <<ItemDir(MarkdownRoot, "_domain"), AggregateName(DomainLabel, ".md")>>

\* C17: write_domain_aggregates, given item directories holding a non-empty
\* aggregate.html / aggregate.md, writes one combined HTML and one combined
\* Markdown aggregate that contain every item's content (trimmed) exactly
\* once, in sorted directory-name order, each HTML fragment between its
\* Start and End markers and each Markdown fragment under its heading; it
\* writes nothing at all when no HTML or no Markdown fragment is found.
C17_DomainAggregatesHoldEveryItem ==
    passes >= 1 =>
        LET html_items == ItemsWith(RenderedRoot, LegacyHtml)
            markdown_items == ItemsWith(MarkdownRoot, LegacyMarkdown)
        IN  IF html_items = << >> \/ markdown_items = << >>
            THEN /\ fs.log = {}
                 /\ \A path \in DOMAIN fs.files :
                       path[1] \notin {ItemDir(RenderedRoot, "_domain"),
                                       ItemDir(MarkdownRoot, "_domain")}
                 /\ ItemDir(RenderedRoot, "_domain") \notin fs.dirs
                 /\ ItemDir(MarkdownRoot, "_domain") \notin fs.dirs
            ELSE /\ Exists(fs, DomainHtmlPath)
                 /\ fs.files[DomainHtmlPath].data
                       = Join(<<NL, NL>>, [i \in 1 .. Len(html_items) |->
                                              WrappedHtml(html_items[i])]) \o <<NL>>
                 /\ Exists(fs, DomainMarkdownPath)
                 /\ fs.files[DomainMarkdownPath].data
                       = Join(<<NL, NL>>, [i \in 1 .. Len(markdown_items) |->
                                              HeadedMarkdown(markdown_items[i])]) \o <<NL>>

\* Aggregates written over three items one of which lacks its aggregate.md
\* and one of which holds content with white space around it.
C17_Witness ==
    /\ passes >= 1
    /\ Len(ItemsWith(RenderedRoot, LegacyHtml)) = 3
    /\ Len(ItemsWith(MarkdownRoot, LegacyMarkdown)) = 2
    /\ fs.files[<<ItemDir(RenderedRoot, "b"), LegacyHtml>>].data # <<"a">>
    /\ Exists(fs, DomainHtmlPath)
    /\ Exists(fs, DomainMarkdownPath)

\* What the run r leaves when it is the only run in the directory.
Alone(r) ==
    markdown_generate([dirs |-> {path[1] : path \in DOMAIN before.files},
                       files |-> before.files, log |-> {}],
                      runs[r].payload, OutDir, RunBase(r), Label, runs[r].limit, "", RunHtml)

ArtifactsAlone(r) == {path \in DOMAIN Alone(r).files : <<"write", path>> \in Alone(r).log}

\* C18: concurrent generation runs for two documents with different
\* base_name are independent: however the delete and write steps of the
\* two runs interleave in a shared directory, both runs complete and each
\* document's artifact files and their contents are the ones its run
\* produces when executed alone.
C18_ConcurrentRunsIndependent ==
    (runs # NoRuns /\ \A r \in RunIds : runs[r].pc \in {"done", "raised"}) =>
        \A r \in RunIds :
            /\ runs[r].pc = "done"
            /\ \A path \in ArtifactsAlone(r) :
                  Exists(fs, path) /\ fs.files[path] = Alone(r).files[path]

\* The positions (0-based) of the newlines inside the window [cursor, cursor + max_chars).
WindowNewlines ==
    {p \in cursor .. (cursor + max_chars - 1) : p < Len(text) /\ text[p + 1] = NL}

LastWindowNewline == CHOOSE p \in WindowNewlines : \A q \in WindowNewlines : q <= p

\* C22: in split_text_on_newlines with limit L >= 1, a window starting at
\* cursor c that ends before the end of the text yields text[c..p] and moves
\* the cursor to p + 1 when its last newline p lies past the midpoint
\* (p - c > 0.5 * L), and yields exactly the L characters text[c..c+L-1]
\* otherwise; the final window takes all the remaining characters.
C22_WindowEndsAtLateNewlineOrLimit ==
    [][(split_pc = "loop" /\ text # << >> /\ cursor < Len(text)) =>
          IF cursor + max_chars < Len(text)
          THEN IF WindowNewlines # {} /\ 2 * (LastWindowNewline - cursor) > max_chars
               THEN /\ chunks' = Append(chunks, SubSeq(text, cursor + 1, LastWindowNewline + 1))
                    /\ cursor' = LastWindowNewline + 1
               ELSE /\ chunks' = Append(chunks, SubSeq(text, cursor + 1, cursor + max_chars))
                    /\ cursor' = cursor + max_chars
          ELSE /\ chunks' = Append(chunks, SubSeq(text, cursor + 1, Len(text)))
               /\ cursor' = Len(text)]_vars

\* A finished split whose first window held a newline past its midpoint and
\* before its last position, so that the chunk is shorter than the limit,
\* and whose last window took the rest.
C22_Witness ==
    /\ split_pc = "done"
    /\ Len(chunks) >= 2
    /\ Len(chunks[1]) < max_chars
    /\ chunks[1][Len(chunks[1])] = NL
    /\ 2 * (Len(chunks[1]) - 1) > max_chars
    /\ Len(chunks[Len(chunks)]) < max_chars

\* The units a size-based splitter counts: bytes for split_html, characters
\* for split_md and split_txt.
Units(chunk) == IF splitting.kind = "bytes" THEN utf8_encode(chunk) ELSE chunk

NewlineUnit == IF splitting.kind = "bytes" THEN "0A" ELSE "U+000A"

\* Where chunk k begins in the payload, counted in units.
ChunkStart(k) == Len(Concat([i \in 1 .. k - 1 |-> Units(splitting.chunks[i])]))

\* The newlines inside the window of the limit's size that begins at c.
NewlinesFrom(c) ==
    {p \in c .. (c + splitting.limit - 1) :
        p < Len(Units(splitting.payload)) /\ Units(splitting.payload)[p + 1] = NewlineUnit}

\* C21: split_md, split_txt and split_html by bytes honor the newline
\* boundary preference: a window that would end before the end of the
\* payload ends at its last newline when that newline lies past the
\* window's midpoint, and is hard-cut at the limit only otherwise (stated
\* for payloads of one-byte characters, where a cut at the limit is exact).
C21_SplittersPreferNewline ==
    (/\ splitting.pc # "idle"
     /\ splitting.kind \in {"bytes", "text"}
     /\ splitting.limit >= 1
     /\ \A i \in 1 .. Len(splitting.payload) : splitting.payload[i] \in LineChars
     /\ Len(splitting.payload) > splitting.limit) =>
        \A k \in 1 .. Len(splitting.chunks) :
            LET c == ChunkStart(k)
                last == CHOOSE p \in NewlinesFrom(c) : \A q \in NewlinesFrom(c) : q <= p
            IN  c + splitting.limit < Len(Units(splitting.payload)) =>
                    Len(Units(splitting.chunks[k]))
                        = IF NewlinesFrom(c) # {} /\ 2 * (last - c) > splitting.limit
                          THEN last - c + 1
                          ELSE splitting.limit

\* The children a chunk of the node splitter holds inside its container.
ChildrenOf(chunk) == SubSeq(chunk, 2, Len(chunk) - 1)

\* C23: _split_html_by_nodes with max_nodes >= 1 partitions the direct
\* children of the body: every child is in exactly one chunk, whole and in
\* document order; every chunk but the last holds exactly max_nodes
\* children, the last between 1 and max_nodes, so that k >= 1 children
\* give ceil(k / max_nodes) chunks, each in a container element.
C23_NodesPartitioned ==
    (splitting.pc # "idle" /\ splitting.kind = "nodes" /\ splitting.payload # << >>) =>
        /\ \A k \in 1 .. Len(splitting.chunks) :
              /\ Head(splitting.chunks[k]) = "<body>"
              /\ splitting.chunks[k][Len(splitting.chunks[k])] = "</body>"
              /\ Len(ChildrenOf(splitting.chunks[k])) >= 1
              /\ Len(ChildrenOf(splitting.chunks[k])) <= splitting.limit
              /\ k < Len(splitting.chunks) =>
                    Len(ChildrenOf(splitting.chunks[k])) = splitting.limit
        /\ Concat([k \in 1 .. Len(splitting.chunks) |-> ChildrenOf(splitting.chunks[k])])
              = splitting.payload
        /\ Len(splitting.chunks)
              = (Len(splitting.payload) + splitting.limit - 1) \div splitting.limit

\* Three children of two kinds split two by two: a full chunk and a last
\* chunk with the one child left.
C23_Witness ==
    /\ splitting.pc = "split"
    /\ splitting.kind = "nodes"
    /\ splitting.limit = 2
    /\ splitting.payload = <<"<p>", "<hr>", "<p>">>
    /\ Len(splitting.chunks) = 2
    /\ ChildrenOf(splitting.chunks[2]) = <<"<p>">>

\* C26: after a splitter of pipelines.common.splitters has run again on the
\* same source path with a different limit, the directory holds for that
\* base name only parts 1..N of N of the latest pass: no chunk file that
\* the earlier pass wrote with another total remains.
C26_OnlyPartsOfLatestPass ==
    (splitting.pc = "written" /\ splitting.pass >= 2) =>
        LET total == IF Len(splitting.chunks) = 0 THEN 1 ELSE Len(splitting.chunks)
        IN  DOMAIN splitting.files
                = {ChunkName(DefaultBase, index, total, SplitterExtension(splitting.kind)) :
                      index \in 1 .. total}

\* C28: no Markdown chunk is lost in the JSON fan-out: for every part index
\* i of the split of the aggregate Markdown the aggregate JSON has a chunk
\* record with part = i whose markdown field holds that chunk, also when
\* the Markdown splits into another number of parts than the HTML.
C28_EveryMarkdownChunkInJson ==
    (pc = "NeedsPdf" /\ call.json = "run" /\ Exists(fs, JsonAggregate)) =>
        LET markdown_chunks == split_text_on_newlines(call.markdown, doc.limit)
            json_chunks == fs.files[JsonAggregate].data.chunks
        IN  \A i \in 1 .. Len(markdown_chunks) :
                \E k \in 1 .. Len(json_chunks) :
                    /\ json_chunks[k].part = i
                    /\ json_chunks[k].markdown.body = strip(markdown_chunks[i])

\* C30: every split terminates: the chunk limit resolved from the
\* configuration is >= 1 whatever chunk_char_limit or split_parts it holds,
\* the cursor of split_text_on_newlines strictly increases on each
\* iteration without passing the end of the text, and the split returns
\* (or the run ended before it, the configuration being refused).
C30_SplitTerminates ==
    /\ [](split_pc = "loop" => max_chars >= 1)
    /\ [][(split_pc = "loop" /\ text # << >> /\ cursor < Len(text)) =>
             (cursor' > cursor /\ cursor' <= Len(text))]_vars
    /\ <>(split_pc \in {"done", "exit", "raise"})

\* A split of several windows has returned under a limit that the
\* configuration gave as a number below 1 or as a small number.
C30_Witness ==
    /\ split_pc = "done"
    /\ max_chars \in 1 .. MaxConfigLimit
    /\ Len(chunks) >= 3
    /\ cursor = Len(text)

\* The records of a fetch_and_render call are numbered 1..k and all but the
\* last are timeouts, in the configurations of the attempts list.
RecordsInOrder ==
    \A k \in 1 .. Len(fetch.attempt_records) :
        LET record == fetch.attempt_records[k]
        IN  /\ record.attempt = k
            /\ <<record.wait_until, record.timeout_ms>> = fetch.attempts[k]
            /\ k < Len(fetch.attempt_records) => record.status = "timeout"

LastStatus ==
    IF fetch.attempt_records = << >> THEN "none"
    ELSE fetch.attempt_records[Len(fetch.attempt_records)].status

RECURSIVE Annotations(_)
Annotations(payload) ==
    IF payload = << >> THEN 0
    ELSE (IF IsSourceComment(Head(payload)) THEN 1 ELSE 0) + Annotations(Tail(payload))

ConvertedHtml ==
    fs.files[<<convert.layout.html_output_dir,
               AggregateName(convert.layout.base_filename, ".html")>>].data
ConvertedMarkdown ==
    fs.files[<<convert.layout.markdown_output_dir,
               AggregateName(convert.layout.base_filename, ".md")>>].data

\* C25: after any number of conversion passes of a document with its source
\* URL, passes that read an aggregate written by an earlier pass included,
\* the aggregate HTML and the aggregate Markdown each carry the source-URL
\* annotation exactly once.
C25_AnnotatedOnce ==
    convert.passes >= 1 =>
        /\ Annotations(ConvertedHtml) = 1
        /\ Annotations(ConvertedMarkdown) = 1

\* s occurs in t as a run of consecutive tokens.
Infix(s, t) == \E i \in 0 .. Len(t) - Len(s) : SubSeq(t, i + 1, i + Len(s)) = s

\* The per-item aggregates that the conversion of a URL wrote.
ItemHtml(slug) == fs.files[<<ItemDir(RenderedRoot, slug), <<slug, ".html">> >>].data
ItemMarkdown(slug) == fs.files[<<ItemDir(MarkdownRoot, slug), <<slug, ".md">> >>].data

\* C27: when process_urls has finished a domain, the combined aggregates
\* under "_domain" hold the per-item aggregate HTML and Markdown of every
\* URL that was rendered and converted in that run.
C27_DomainHoldsConvertedUrls ==
    (urls.pc = "idle" /\ urls.runs >= 1) =>
        \A k \in 1 .. Len(urls.processed) :
            (urls.processed[k].rendered /\ urls.processed[k].convert_performed) =>
                /\ Exists(fs, DomainHtmlPath)
                /\ Exists(fs, DomainMarkdownPath)
                /\ Infix(strip(ItemHtml(urls.processed[k].slug)),
                         fs.files[DomainHtmlPath].data)
                /\ Infix(strip(ItemMarkdown(urls.processed[k].slug)),
                         fs.files[DomainMarkdownPath].data)

\* The tokens of a payload.
Tokens(payload) == {payload[i] : i \in 1 .. Len(payload)}

\* C29: with several PDFs in a dataset directory, process_pdf_dataset
\* derives the rendered HTML and the fan-out artifacts of each PDF from that
\* PDF's own content, with overwrite true or false: the aggregate handed to
\* the fan-out of a PDF holds the text of that PDF and of no other, and the
\* rendered HTML written for a PDF still holds its text when the run over
\* the dataset is over.
C29_EachPdfItsOwnArtifacts ==
    \A k \in 1 .. Len(pdfs.done) :
        /\ pdfs.done[k].fanned_out =>
              Tokens(pdfs.done[k].aggregate_html) \cap PdfNames = {pdfs.done[k].pdf}
        /\ (pdfs.pc = "idle" /\ pdfs.done[k].rendered) =>
              /\ Exists(fs, PdfRendered)
              /\ Tokens(fs.files[PdfRendered].data) \cap PdfNames = {pdfs.done[k].pdf}

================================================================================
